---- MODULE Spec2Model ----
(***************************************************************************)
(* Audit ledger (AuditLogService) and rollback governor (RollbackService)  *)
(* of the agent-pipeline versioning repository.                            *)
(*                                                                         *)
(* Strings of the program are TLA+ strings.  A SHA-256 digest is the pair  *)
(* <<"sha256", input>>: a function of its input without collisions.  The  *)
(* payload of an audit hash, which the code joins with '|', is the tuple   *)
(* of the joined parts.  A value that is a digest, the empty string or     *)
(* undefined is a tuple: EmptyString and NoHash stand for the last two.    *)
(* Dates are milliseconds since the epoch.  A handler is an operator from  *)
(* the state before a call to the state after it, what it threw and what   *)
(* it returned.  In Spec, LedgerSpec, PruneSpec and TamperSpec each public *)
(* method is one atomic action: a caller that awaits every call before     *)
(* issuing the next.  In ConcSpec and MonitorSpec a call is a task of the  *)
(* event loop that runs from one await to the next, and calls overlap.     *)
(***************************************************************************)
EXTENDS Integers, Sequences, FiniteSets, TLC

VARIABLES
    now,                    \* the wall clock, Date.now(), in ms
    logs,                   \* AuditLogService.logs
    lastHash,               \* AuditLogService.lastHash
    tampered,               \* <<k, field>> once storage corruption hit entry k
    rollbacks,              \* RollbackService.rollbacks, id -> Rollback
    order,                  \* insertion order of the keys of rollbacks
    lastRollbackTime,       \* RollbackService.lastRollbackTime
    rollbackCountLastHour,  \* RollbackService.rollbackCountLastHour
    checkInterval,          \* RollbackService.checkInterval
    timers,                 \* the intervals of the runtime that are active
    notified,               \* the ids of the records the hook was called with
    thisConfig,             \* the RollbackConfig object the governor reads
    tasks,                  \* the async calls made, in the order of the calls
    branches,               \* BranchManager.branches
    currentBranch           \* BranchManager.currentBranch

vars == <<now, logs, lastHash, tampered, rollbacks, order,
          lastRollbackTime, rollbackCountLastHour, checkInterval, timers,
          notified, thisConfig, tasks, branches, currentBranch>>

----------------------------------------------------------------------------
(* Bounds of the model *)

MaxLogs == 3        \* ledger entries appended in one behaviour
MaxRollbacks == 3   \* rollback records created in one behaviour
MaxTicks == 3       \* clock advances in one behaviour

TickMs == 25 * 60 * 1000        \* one clock advance: 25 minutes
HourMs == 60 * 60 * 1000        \* the trailing hour of the rate limit
StartTime == 10 * HourMs        \* Date.now() at construction (far from 0)

----------------------------------------------------------------------------
(* JavaScript values *)

Undefined == "<undefined>"
Null == "<null>"
None == "<none>"

\* the empty string and undefined, where a digest can stand too
EmptyString == <<>>
NoHash == <<Undefined>>

\* string concatenation renders undefined as 'undefined'
StringOf(x) == IF x = Undefined THEN "undefined" ELSE x

\* Array.prototype.join renders undefined as the empty string
JoinField(x) == IF x = Undefined THEN "" ELSE x

RECURSIVE Join(_, _)
Join(parts, sep) ==
    IF Len(parts) = 0 THEN ""
    ELSE IF Len(parts) = 1 THEN JoinField(parts[1])
    ELSE JoinField(parts[1]) \o sep \o Join(Tail(parts), sep)

\* Date.prototype.toISOString: one string per instant
toISOString(t) == ToString(t)

\* JSON text of a string value and of an array of strings
JsonString(s) == "\"" \o s \o "\""
JsonArray(xs) == "[" \o Join([i \in 1..Len(xs) |-> JsonString(xs[i])], ",") \o "]"

\* details is the list of its own properties in insertion order, each with
\* the JSON text of its value; JSON.stringify omits undefined values.
RECURSIVE JsonMembers(_)
JsonMembers(details) ==
    IF Len(details) = 0 THEN <<>>
    ELSE IF details[1].json = Undefined THEN JsonMembers(Tail(details))
    ELSE <<JsonString(details[1].key) \o ":" \o details[1].json>>
             \o JsonMembers(Tail(details))

JSONstringify(details) == "{" \o Join(JsonMembers(details), ",") \o "}"

\* uuidv4(): a value no stored entry or record carries yet, named by the
\* number after the one of the newest entry or record
Digit(c) ==
    CASE c = "0" -> 0 [] c = "1" -> 1 [] c = "2" -> 2 [] c = "3" -> 3
      [] c = "4" -> 4 [] c = "5" -> 5 [] c = "6" -> 6 [] c = "7" -> 7
      [] c = "8" -> 8 [] c = "9" -> 9

RECURSIVE ParseInt(_)
ParseInt(s) ==
    IF Len(s) = 0 THEN 0
    ELSE 10 * ParseInt(SubSeq(s, 1, Len(s) - 1))
             + Digit(SubSeq(s, Len(s), Len(s)))

Uuid(k) == "uuid-" \o ToString(k)
UuidNumber(id) == ParseInt(SubSeq(id, 6, Len(id)))

NewestNumber(st) ==
    LET l == IF Len(st.logs) = 0 THEN 0
             ELSE UuidNumber(st.logs[Len(st.logs)].id)
        r == IF Len(st.order) = 0 THEN 0
             ELSE UuidNumber(st.order[Len(st.order)])
    IN  IF l > r THEN l ELSE r

uuidv4(st) == Uuid(NewestNumber(st) + 1)

----------------------------------------------------------------------------
(* crypto.ts *)

sha256(data) == <<"sha256", data>>

createInitialHash(t) ==
    sha256(<<"AGENT_PIPELINE_VERSIONING_INITIAL_HASH_", ToString(t)>>)

\* previousHash || ''
OrEmpty(previousHash) ==
    IF previousHash = NoHash \/ previousHash = EmptyString
    THEN EmptyString ELSE previousHash

createAuditHash(logData, previousHash) ==
    sha256(<<JoinField(logData.id), JoinField(logData.action),
             JoinField(logData.actor), JoinField(logData.target),
             JoinField(logData.timestamp), JSONstringify(logData.details),
             OrEmpty(previousHash)>>)

----------------------------------------------------------------------------
(* types.ts *)

TargetTypes == {"artifact", "commit", "branch", "rollback", "environment"}

\* AuditLogSchema.safeParse(auditLog).success
AuditLogSchemaOk(auditLog) ==
    /\ auditLog.action # Undefined
    /\ auditLog.actor # Undefined
    /\ auditLog.target # Undefined
    /\ auditLog.targetType \in TargetTypes

\* z.string().uuid()
IsUuid(s) == Len(s) > 5 /\ SubSeq(s, 1, 5) = "uuid-"

RollbackStatuses == {"pending", "in_progress", "completed", "failed"}
RollbackTriggers == {"manual", "automated"}
TriggerReasons == {"error_rate_spike", "safety_violation",
                   "performance_degradation", "manual_request",
                   "scheduled_rollback"}

----------------------------------------------------------------------------
(* audit.ts: AuditLogService.  A handler takes the state of the two        *)
(* services as a record st and gives the state after it, what it threw and *)
(* what it returned.                                                       *)

State ==
    [logs |-> logs, lastHash |-> lastHash,
     rollbacks |-> rollbacks, order |-> order,
     lastRollbackTime |-> lastRollbackTime,
     rollbackCountLastHour |-> rollbackCountLastHour,
     checkInterval |-> checkInterval, timers |-> timers,
     notified |-> notified]

Returned(st, value) == [st |-> st, threw |-> None, value |-> value]
Threw(st, error) == [st |-> st, threw |-> error, value |-> None]

\* the object whose fields createAuditHash joins
LogData(id, action, actor, target, timestamp, details) ==
    [id |-> id, action |-> action, actor |-> actor, target |-> target,
     timestamp |-> toISOString(timestamp), details |-> details]

\* the previousHash a new entry is linked to
LinkOf(st) == st.lastHash

\* a tail that is not advanced by the append
TailAfter_Stale(st, hash) == st.lastHash

\* the cached tail after an entry with this hash was pushed
TailAfter(st, hash) == hash

\* the entry log builds: fresh id, timestamp, hash over the cached tail
AuditLogOf(st, entry, t) ==
    LET id == uuidv4(st)
        details == entry.details
        previousHash == LinkOf(st)
        hash == createAuditHash(
                    LogData(id, entry.action, entry.actor, entry.target, t,
                            details), previousHash)
    IN  [id |-> id, action |-> entry.action, actor |-> entry.actor,
         target |-> entry.target, targetType |-> entry.targetType,
         timestamp |-> t, details |-> details, hash |-> hash,
         previousHash |-> previousHash,
         ipAddress |-> entry.ipAddress,
         userAgent |-> entry.userAgent]

\* this.logs.push(auditLog); this.lastHash = hash
Pushed(st, auditLog) ==
    [st EXCEPT !.logs = Append(@, auditLog),
               !.lastHash = TailAfter(st, auditLog.hash)]

\* a rejection that comes after the push
Rejected_AfterPush(st, auditLog) == Pushed(st, auditLog)

\* the ledger when log throws: the throw comes before the push
Rejected(st, auditLog) == st

log(st, entry, t) ==
    LET auditLog == AuditLogOf(st, entry, t)
    IN  IF ~AuditLogSchemaOk(auditLog)
        THEN Threw(Rejected(st, auditLog), "Invalid audit log")
        ELSE Returned(Pushed(st, auditLog), auditLog.id)

\* what entry i (1-based) must link to
ExpectedPreviousHash(ls, i) == IF i > 1 THEN ls[i - 1].hash ELSE NoHash

\* the hash verifyIntegrity recomputes for a stored entry
ComputedHash(l) ==
    createAuditHash(
        LogData(l.id, l.action, l.actor, l.target, l.timestamp, l.details),
        l.previousHash)

\* the loop of verifyIntegrity from index i on; brokenAt is 0-based as in
\* the code and -1 when the result carries none
RECURSIVE VerifyFrom(_, _)
VerifyFrom(ls, i) ==
    IF i > Len(ls) THEN [valid |-> TRUE, brokenAt |-> -1]
    ELSE IF ls[i].previousHash # ExpectedPreviousHash(ls, i)
         THEN [valid |-> FALSE, brokenAt |-> i - 1]
    ELSE IF ls[i].hash # ComputedHash(ls[i])
         THEN [valid |-> FALSE, brokenAt |-> i - 1]
    ELSE VerifyFrom(ls, i + 1)

verifyIntegrity(ls) == VerifyFrom(ls, 1)

getLastHash(st) == st.lastHash

\* The RepositoryConfig the ledger is constructed with: the shortest
\* retention the schema allows.
repositoryConfig == [retentionYears |-> 1]

\* A year of the modelled calendar is two clock advances long, so that an
\* entry outlives its retention within the modelled time.
YearMs == 2 * TickMs

\* new Date() with setFullYear(getFullYear() - retentionYears)
cutoffDate(t) == t - repositoryConfig.retentionYears * YearMs

\* a prune that also starts the chain anew
Retained_TailReset(st, toRetain) ==
    [st EXCEPT !.logs = toRetain, !.lastHash = createInitialHash(0)]

\* this.logs = toRetain
Retained(st, toRetain) == [st EXCEPT !.logs = toRetain]

archiveOldLogs(st, t) ==
    LET toArchive == SelectSeq(st.logs, LAMBDA l : l.timestamp < cutoffDate(t))
        toRetain == SelectSeq(st.logs, LAMBDA l : l.timestamp >= cutoffDate(t))
    IN  Returned(Retained(st, toRetain),
                 [archived |-> Len(toArchive), retained |-> Len(toRetain)])

\* Options of getLogs.  A string option is Undefined when it is left out;
\* a number or a Date option is the empty set when it is left out and the
\* set of its value when it is given.
NoOptions ==
    [actor |-> Undefined, action |-> Undefined, target |-> Undefined,
     targetType |-> Undefined, startDate |-> {}, endDate |-> {},
     limit |-> {}, offset |-> {}]

ValueOf(option) == CHOOSE v \in option : TRUE

\* the truth value of an option in a condition: undefined, '' and 0 are
\* falsy, a Date object never is
TruthyString(option) == option # Undefined /\ option # ""
TruthyNumber(option) == option # {} /\ option # {0}
TruthyDate(option) == option # {}

\* An array of entries getLogs works on: the entries are named by their
\* positions in this.logs, and fresh tells an array of its own from
\* this.logs itself.

\* a query that works on this.logs itself
Spread_Alias(ls) == [fresh |-> FALSE, items |-> [k \in 1..Len(ls) |-> k]]

\* [...this.logs]
Spread(ls) == [fresh |-> TRUE, items |-> [k \in 1..Len(ls) |-> k]]

\* Array.prototype.filter gives a new array
filter(items) == [fresh |-> TRUE, items |-> items]

ByActor(ls, array, options) ==
    IF TruthyString(options.actor)
    THEN filter(SelectSeq(array.items,
             LAMBDA k : ls[k].actor = options.actor))
    ELSE array

ByAction(ls, array, options) ==
    IF TruthyString(options.action)
    THEN filter(SelectSeq(array.items,
             LAMBDA k : ls[k].action = options.action))
    ELSE array

ByTarget(ls, array, options) ==
    IF TruthyString(options.target)
    THEN filter(SelectSeq(array.items,
             LAMBDA k : ls[k].target = options.target))
    ELSE array

ByTargetType(ls, array, options) ==
    IF TruthyString(options.targetType)
    THEN filter(SelectSeq(array.items,
             LAMBDA k : ls[k].targetType = options.targetType))
    ELSE array

ByStartDate(ls, array, options) ==
    IF TruthyDate(options.startDate)
    THEN filter(SelectSeq(array.items,
             LAMBDA k : ls[k].timestamp >= ValueOf(options.startDate)))
    ELSE array

ByEndDate(ls, array, options) ==
    IF TruthyDate(options.endDate)
    THEN filter(SelectSeq(array.items,
             LAMBDA k : ls[k].timestamp <= ValueOf(options.endDate)))
    ELSE array

\* a comparator that puts the oldest entry first
compareFn_Ascending(a, b) == a.timestamp - b.timestamp

\* (a, b) => b.timestamp.getTime() - a.timestamp.getTime()
compareFn(a, b) == b.timestamp - a.timestamp

\* Array.prototype.sort is stable: an element goes behind every element
\* that the comparator does not put after it
RECURSIVE InsertSorted(_, _, _)
InsertSorted(ls, sorted, k) ==
    IF Len(sorted) = 0 THEN <<k>>
    ELSE IF compareFn(ls[sorted[1]], ls[k]) <= 0
    THEN <<sorted[1]>> \o InsertSorted(ls, Tail(sorted), k)
    ELSE <<k>> \o sorted

RECURSIVE SortItems(_, _)
SortItems(ls, items) ==
    IF Len(items) = 0 THEN <<>>
    ELSE InsertSorted(ls, SortItems(ls, SubSeq(items, 1, Len(items) - 1)),
                      items[Len(items)])

\* Array.prototype.sort sorts the array it is called on: this.logs, when
\* the array is this.logs
sort(st, array) ==
    LET sorted == SortItems(st.logs, array.items)
    IN  IF array.fresh THEN [st |-> st, items |-> sorted]
        ELSE [st |-> [st EXCEPT !.logs =
                         [k \in 1..Len(sorted) |-> st.logs[sorted[k]]]],
              items |-> [k \in 1..Len(sorted) |-> k]]

\* Array.prototype.slice(start, end), for start and end that are not
\* negative
slice(items, start, end) ==
    SubSeq(items, start + 1, IF end < Len(items) THEN end ELSE Len(items))

\* getLogs returns the stored entry objects: its value lists the positions
\* they have in this.logs
getLogs(st, options) ==
    LET filtered ==
            ByEndDate(st.logs,
              ByStartDate(st.logs,
                ByTargetType(st.logs,
                  ByTarget(st.logs,
                    ByAction(st.logs,
                      ByActor(st.logs, Spread(st.logs), options),
                      options), options), options), options), options)
        sorted == sort(st, filtered)
        offset == IF TruthyNumber(options.offset)
                  THEN ValueOf(options.offset) ELSE 0
        limit == IF TruthyNumber(options.limit)
                 THEN ValueOf(options.limit) ELSE Len(sorted.items)
    IN  Returned(sorted.st, slice(sorted.items, offset, offset + limit))

\* the entries a value of getLogs names
EntriesOf(ls, items) == [k \in 1..Len(items) |-> ls[items[k]]]

\* The hex text of a digest: a text without delimiters that the digest
\* determines; which hex digits it has is not modelled.
RECURSIVE Checksum(_)
Checksum(hash) ==
    IF hash \in {EmptyString, NoHash} THEN 0
    ELSE LET data == hash[2]
         IN  IF Len(data) < 7 THEN Len(data[1])
             ELSE (Len(data[1]) + 3 * Len(data[2]) + 5 * Len(data[3])
                   + 7 * Len(data[4]) + 11 * Len(data[5]) + 13 * Len(data[6])
                   + 17 * Checksum(data[7])) % 65536

hex(hash) == "hex" \o ToString(Checksum(hash))

\* one member of a pretty-printed object of the array
JsonMember(key, json) == "    " \o JsonString(key) \o ": " \o json

\* JSON.stringify of one entry with indent 2, inside the array: properties
\* in the order log wrote them, undefined ones left out; the white space
\* inside details is not modelled
JsonEntry(l) ==
    LET optional(key, v) ==
            IF v = Undefined THEN <<>> ELSE <<JsonMember(key, JsonString(v))>>
        members ==
            <<JsonMember("id", JsonString(l.id)),
              JsonMember("action", JsonString(l.action)),
              JsonMember("actor", JsonString(l.actor)),
              JsonMember("target", JsonString(l.target)),
              JsonMember("targetType", JsonString(l.targetType)),
              JsonMember("timestamp", JsonString(toISOString(l.timestamp))),
              JsonMember("details", JSONstringify(l.details)),
              JsonMember("hash", JsonString(hex(l.hash)))>>
            \o (IF l.previousHash = NoHash THEN <<>>
                ELSE <<JsonMember("previousHash",
                                  JsonString(hex(l.previousHash)))>>)
            \o optional("ipAddress", l.ipAddress)
            \o optional("userAgent", l.userAgent)
    IN  "  {\n" \o Join(members, ",\n") \o "\n  }"

\* the cells of the CSV row of an entry
CsvRow(l) ==
    <<l.id, l.action, l.actor, l.target, l.targetType,
      toISOString(l.timestamp), hex(l.hash),
      IF OrEmpty(l.previousHash) = EmptyString THEN ""
      ELSE hex(l.previousHash)>>

CsvHeaders ==
    <<"id", "action", "actor", "target", "targetType", "timestamp", "hash",
      "previousHash">>

exportForCompliance(st, format) ==
    IF format = "json"
    THEN Returned(st,
             IF Len(st.logs) = 0 THEN "[]"
             ELSE "[\n"
                  \o Join([k \in 1..Len(st.logs) |-> JsonEntry(st.logs[k])],
                          ",\n")
                  \o "\n]")
    ELSE Returned(st,
             Join(<<Join(CsvHeaders, ",")>>
                  \o [k \in 1..Len(st.logs) |-> Join(CsvRow(st.logs[k]), ",")],
                  "\n"))

\* serialize and deserialize.  A JSON object is the list of its members,
\* [key, value], in the order JSON.stringify writes them: the own properties
\* of the value in insertion order, those that are undefined left out.  The
\* text around the members, which JSON.parse reads back as it was written,
\* is not modelled.
Property(key, value) == [key |-> key, value |-> value]

\* Date.prototype.toJSON and new Date(string)
toJSON(t) == toISOString(t)
NewDate(s) == ParseInt(s)

\* the members JSON.stringify writes for an object of string values
Defined(properties) == SelectSeq(properties, LAMBDA p : p.value # Undefined)

\* the members it writes for the details of an entry
DefinedDetails(details) == SelectSeq(details, LAMBDA d : d.json # Undefined)

\* JSON.stringify of one stored entry
JsonLog(l) ==
    Defined(<<Property("id", l.id), Property("action", l.action),
              Property("actor", l.actor), Property("target", l.target),
              Property("targetType", l.targetType)>>)
    \o <<Property("timestamp", toJSON(l.timestamp)),
         Property("details", DefinedDetails(l.details)),
         Property("hash", l.hash)>>
    \o (IF l.previousHash = NoHash THEN <<>>
        ELSE <<Property("previousHash", l.previousHash)>>)
    \o Defined(<<Property("ipAddress", l.ipAddress),
                 Property("userAgent", l.userAgent)>>)

serialize(st) ==
    [logs |-> [k \in 1..Len(st.logs) |-> JsonLog(st.logs[k])],
     lastHash |-> st.lastHash]

\* reading a property of a parsed object: undefined when it has no such
\* member
Get(object, key, undefined) ==
    IF \E i \in DOMAIN object : object[i].key = key
    THEN object[CHOOSE i \in DOMAIN object : object[i].key = key].value
    ELSE undefined

\* one parsed entry, as the code that reads its properties sees it
ParsedLog(object) ==
    [id |-> Get(object, "id", Undefined),
     action |-> Get(object, "action", Undefined),
     actor |-> Get(object, "actor", Undefined),
     target |-> Get(object, "target", Undefined),
     targetType |-> Get(object, "targetType", Undefined),
     timestamp |-> Get(object, "timestamp", Undefined),
     details |-> Get(object, "details", Undefined),
     hash |-> Get(object, "hash", NoHash),
     previousHash |-> Get(object, "previousHash", NoHash),
     ipAddress |-> Get(object, "ipAddress", Undefined),
     userAgent |-> Get(object, "userAgent", Undefined)]

\* { ...log, timestamp: new Date(log.timestamp) }
Revived(l) == [l EXCEPT !.timestamp = NewDate(@)]

\* a restored service that keeps the tail its constructor made
RestoredTail_Constructed(parsed, t) == createInitialHash(t)

\* service.lastHash = parsed.lastHash, over the constructor's initial hash
RestoredTail(parsed, t) == parsed.lastHash

\* the ledger of the service deserialize returns, constructed at time t
deserialize(data, t) ==
    [logs |-> [k \in 1..Len(data.logs) |-> Revived(ParsedLog(data.logs[k]))],
     lastHash |-> RestoredTail(data, t)]

----------------------------------------------------------------------------
(* rollback.ts: RollbackService *)

\* The RollbackConfig the service is constructed with.  Rates are in per
\* cent (errorRateThreshold 5 is the default 0.05); the cooldown and the
\* hourly cap are chosen so that both gates act within the modelled time.
constructedConfig ==
    [errorRateThreshold |-> 5, safetyViolationThreshold |-> 0,
     performanceThresholdMs |-> 5000, detectionWindowSeconds |-> 60,
     cooldownSeconds |-> 3000, maxRollbacksPerHour |-> 2]

\* this.config: the constructor keeps the object it was given
config == thisConfig

\* a snapshot taken from the defaults of the module
AutoRollbackConfigOf_Defaults(cfg) ==
    [errorRateThreshold |-> 5, safetyViolationThreshold |-> 0,
     performanceThresholdMs |-> 5000, detectionWindowSeconds |-> 60,
     cooldownSeconds |-> 300]

\* the autoRollbackConfig of a new record: five numbers read from cfg
AutoRollbackConfigOf(cfg) ==
    [errorRateThreshold |-> cfg.errorRateThreshold,
     safetyViolationThreshold |-> cfg.safetyViolationThreshold,
     performanceThresholdMs |-> cfg.performanceThresholdMs,
     detectionWindowSeconds |-> cfg.detectionWindowSeconds,
     cooldownSeconds |-> cfg.cooldownSeconds]

AUDIT_ACTIONS ==
    [ROLLBACK_INITIATED |-> "ROLLBACK_INITIATED",
     ROLLBACK_COMPLETED |-> "ROLLBACK_COMPLETED",
     ROLLBACK_FAILED |-> "ROLLBACK_FAILED"]

\* an AuditLogEntry as the governor builds them (no ipAddress, userAgent)
AuditLogEntry(action, actor, target, targetType, details) ==
    [action |-> action, actor |-> actor, target |-> target,
     targetType |-> targetType, details |-> details,
     ipAddress |-> Undefined, userAgent |-> Undefined]

Detail(key, json) == [key |-> key, json |-> json]

\* RollbackSchema.safeParse(rollback).success
RollbackSchemaOk(rollback) ==
    /\ rollback.targetVersion # Undefined
    /\ rollback.targetCommitId = Undefined \/ IsUuid(rollback.targetCommitId)
    /\ rollback.trigger \in RollbackTriggers
    /\ rollback.reason \in TriggerReasons
    /\ rollback.initiatedBy # Undefined
    /\ rollback.status \in RollbackStatuses

\* a cooldown compared in the wrong unit (ms against seconds)
CooldownActive_Millis(st, t) ==
    t - st.lastRollbackTime < config.cooldownSeconds

\* the cooldown gate of checkAndTriggerRollback; timeSinceLastRollback is
\* (t - lastRollbackTime) / 1000, compared here without the division
CooldownActive(st, t) ==
    t - st.lastRollbackTime < config.cooldownSeconds * 1000

\* a rate gate that never closes
RateLimited_Never(st) == FALSE

\* the rate gate of checkAndTriggerRollback
RateLimited(st) == st.rollbackCountLastHour >= config.maxRollbacksPerHour

\* trigger conditions that test the error rate before the safety violations
TriggerReasonOf_ErrorFirst(metrics) ==
    IF metrics.errorRate > config.errorRateThreshold
    THEN "error_rate_spike"
    ELSE IF metrics.safetyViolations > config.safetyViolationThreshold
    THEN "safety_violation"
    ELSE IF metrics.averageResponseTimeMs > config.performanceThresholdMs
    THEN "performance_degradation"
    ELSE None

\* thresholds that a value on them exceeds
TriggerReasonOf_NonStrict(metrics) ==
    IF metrics.safetyViolations >= config.safetyViolationThreshold
    THEN "safety_violation"
    ELSE IF metrics.errorRate >= config.errorRateThreshold
    THEN "error_rate_spike"
    ELSE IF metrics.averageResponseTimeMs >= config.performanceThresholdMs
    THEN "performance_degradation"
    ELSE None

\* the trigger conditions, in the order the code tests them
TriggerReasonOf(metrics) ==
    IF metrics.safetyViolations > config.safetyViolationThreshold
    THEN "safety_violation"
    ELSE IF metrics.errorRate > config.errorRateThreshold
    THEN "error_rate_spike"
    ELSE IF metrics.averageResponseTimeMs > config.performanceThresholdMs
    THEN "performance_degradation"
    ELSE None

\* a creation that the gates do not see
GateAfterInitiate_Unfed(st, t) == st

\* the gate state initiateRollback leaves behind
GateAfterInitiate(st, t) ==
    [st EXCEPT !.lastRollbackTime = t, !.rollbackCountLastHour = @ + 1]

\* initiateRollback up to the await of the ledger append
InitiateUntilLogged(st, params, t) ==
    LET id == uuidv4(st)
        rollback ==
            [id |-> id, targetVersion |-> params.targetVersion,
             targetCommitId |-> params.targetCommitId,
             trigger |-> params.trigger, reason |-> params.triggerReason,
             initiatedBy |-> params.initiatedBy, timestamp |-> t,
             status |-> "pending", completedAt |-> {}, error |-> Undefined,
             affectedArtifacts |-> <<>>,
             autoRollbackConfig |-> AutoRollbackConfigOf(config)]
        st2 == [st EXCEPT !.rollbacks = [i \in DOMAIN @ \cup {id} |->
                                             IF i = id THEN rollback ELSE @[i]],
                           !.order = Append(@, id)]
        st3 == GateAfterInitiate(st2, t)
        logged == log(st3,
                      AuditLogEntry(AUDIT_ACTIONS.ROLLBACK_INITIATED,
                                    params.initiatedBy, id, "rollback",
                                    <<Detail("targetVersion",
                                             JsonString(params.targetVersion)),
                                      Detail("trigger",
                                             JsonString(params.trigger)),
                                      Detail("reason",
                                             JsonString(params.triggerReason))>>),
                      t)
    IN  IF ~RollbackSchemaOk(rollback) THEN Threw(st, "Invalid rollback")
        ELSE IF logged.threw # None THEN Threw(logged.st, logged.threw)
        ELSE Returned(logged.st, id)

\* The service is constructed with a hook, which records the record it is
\* called with and returns.
onRollbackTriggered == "hook"

\* a hook that is called twice
Notify_Twice(st, id) ==
    [st EXCEPT !.notified = Append(Append(@, id), id)]

\* if (this.onRollbackTriggered) this.onRollbackTriggered(rollback)
Notify(st, id) ==
    IF onRollbackTriggered # Undefined
    THEN [st EXCEPT !.notified = Append(@, id)]
    ELSE st

initiateRollback(st, params, t) ==
    CHOOSE out \in
        {IF logged.threw # None THEN logged
         ELSE Returned(Notify(logged.st, logged.value), logged.value) :
            logged \in {InitiateUntilLogged(st, params, t)}} : TRUE

checkAndTriggerRollback(st, metrics, t) ==
    IF CooldownActive(st, t) THEN Returned(st, None)
    ELSE IF RateLimited(st) THEN Returned(st, None)
    ELSE IF TriggerReasonOf(metrics) # None
    THEN initiateRollback(st,
             [targetVersion |-> "", targetCommitId |-> Undefined,
              trigger |-> "automated",
              triggerReason |-> TriggerReasonOf(metrics),
              initiatedBy |-> "system"], t)
    ELSE Returned(st, None)

\* an unknown id that is passed over in silence
NotFound_Silent(st, rollbackId) == Returned(st, None)

\* throw new Error('Rollback "' + rollbackId + '" not found')
NotFound(st, rollbackId) == Threw(st, "not found")

\* an execute that accepts any status
ExecuteAllowed_Any(rollback) == TRUE

\* the status check of executeRollback
ExecuteAllowed(rollback) == rollback.status = "pending"

\* executeRollback after its checks: the status is set, then the ledger
\* entry is appended
ExecuteCommit(st, rollbackId, t) ==
    LET st1 == [st EXCEPT !.rollbacks[rollbackId].status = "in_progress"]
        logged == log(st1,
                      AuditLogEntry("ROLLBACK_IN_PROGRESS", "system",
                                    rollbackId, "rollback",
                                    <<Detail("status",
                                             JsonString("in_progress"))>>),
                      t)
    IN  IF logged.threw # None THEN Threw(logged.st, logged.threw)
        ELSE Returned(logged.st, rollbackId)

executeRollback(st, rollbackId, t) ==
    IF rollbackId \notin DOMAIN st.rollbacks
    THEN NotFound(st, rollbackId)
    ELSE IF ~ExecuteAllowed(st.rollbacks[rollbackId])
    THEN Threw(st, "Rollback is not in pending status")
    ELSE ExecuteCommit(st, rollbackId, t)

completeRollback(st, rollbackId, affectedArtifacts, t) ==
    IF rollbackId \notin DOMAIN st.rollbacks
    THEN NotFound(st, rollbackId)
    ELSE LET rollback == st.rollbacks[rollbackId]
             st1 == [st EXCEPT !.rollbacks[rollbackId] =
                         [@ EXCEPT !.status = "completed", !.completedAt = {t},
                                   !.affectedArtifacts = affectedArtifacts]]
             logged == log(st1,
                           AuditLogEntry(AUDIT_ACTIONS.ROLLBACK_COMPLETED,
                                         rollback.initiatedBy, rollbackId,
                                         "rollback",
                                         <<Detail("targetVersion",
                                                  JsonString(rollback.targetVersion)),
                                           Detail("affectedArtifacts",
                                                  JsonArray(affectedArtifacts))>>),
                           t)
         IN  IF logged.threw # None THEN Threw(logged.st, logged.threw)
             ELSE Returned(logged.st, rollbackId)

failRollback(st, rollbackId, error, t) ==
    IF rollbackId \notin DOMAIN st.rollbacks
    THEN NotFound(st, rollbackId)
    ELSE LET rollback == st.rollbacks[rollbackId]
             st1 == [st EXCEPT !.rollbacks[rollbackId] =
                         [@ EXCEPT !.status = "failed", !.completedAt = {t},
                                   !.error = error]]
             logged == log(st1,
                           AuditLogEntry(AUDIT_ACTIONS.ROLLBACK_FAILED,
                                         rollback.initiatedBy, rollbackId,
                                         "rollback",
                                         <<Detail("error", JsonString(error))>>),
                           t)
         IN  IF logged.threw # None THEN Threw(logged.st, logged.threw)
             ELSE Returned(logged.st, rollbackId)

\* an emergency rollback that creates the record and leaves it pending
emergencyRollback_InitiateOnly(st, initiatedBy, targetVersion, t) ==
    initiateRollback(st,
        [targetVersion |-> targetVersion, targetCommitId |-> Undefined,
         trigger |-> "manual", triggerReason |-> "manual_request",
         initiatedBy |-> initiatedBy], t)

emergencyRollback(st, initiatedBy, targetVersion, t) ==
    LET initiated == initiateRollback(st,
                         [targetVersion |-> targetVersion,
                          targetCommitId |-> Undefined, trigger |-> "manual",
                          triggerReason |-> "manual_request",
                          initiatedBy |-> initiatedBy], t)
        executed == executeRollback(initiated.st, initiated.value, t)
    IN  IF initiated.threw # None THEN initiated
        ELSE IF executed.threw # None THEN executed
        ELSE Returned(executed.st, initiated.value)

\* a cancel that accepts any status
CancelAllowed_Any(rollback) == TRUE

\* the status check of cancelRollback
CancelAllowed(rollback) == rollback.status = "pending"

cancelRollback(st, rollbackId, cancelledBy, t) ==
    IF rollbackId \notin DOMAIN st.rollbacks
    THEN NotFound(st, rollbackId)
    ELSE IF ~CancelAllowed(st.rollbacks[rollbackId])
    THEN Threw(st, "Only pending rollbacks can be cancelled")
    ELSE LET st1 == [st EXCEPT !.rollbacks[rollbackId] =
                         [@ EXCEPT !.status = "failed",
                                   !.error = "Cancelled by "
                                                 \o StringOf(cancelledBy),
                                   !.completedAt = {t}]]
             logged == log(st1,
                           AuditLogEntry("ROLLBACK_CANCELLED", cancelledBy,
                                         rollbackId, "rollback", <<>>),
                           t)
         IN  IF logged.threw # None THEN Threw(logged.st, logged.threw)
             ELSE Returned(logged.st, None)

----------------------------------------------------------------------------
(* branching.ts: BranchManager.  The branch map is a function from the     *)
(* names it has to their branches; the order of its entries is not         *)
(* modelled.  A handler takes the manager bm and the state st of the       *)
(* ledger it writes to.                                                    *)

Includes(name, sub) ==
    \E i \in 1..(Len(name) - Len(sub) + 1) :
        SubSeq(name, i, i + Len(sub) - 1) = sub

StartsWith(name, prefix) ==
    Len(name) >= Len(prefix) /\ SubSeq(name, 1, Len(prefix)) = prefix

EndsWith(name, suffix) ==
    /\ Len(name) >= Len(suffix)
    /\ SubSeq(name, Len(name) - Len(suffix) + 1, Len(name)) = suffix

\* name.trim() === '' for a name of spaces
Blank(name) == \A i \in 1..Len(name) : SubSeq(name, i, i) = " "

\* /^prefix.+$/.test(branchName)
Matches(branchName, prefix) ==
    StartsWith(branchName, prefix) /\ Len(branchName) > Len(prefix)

BranchTypes == {"main", "develop", "feature", "hotfix", "release"}

getBranchType(branchName) ==
    IF branchName = "main" THEN "main"
    ELSE IF branchName = "develop" THEN "develop"
    ELSE IF Matches(branchName, "feature/") THEN "feature"
    ELSE IF Matches(branchName, "hotfix/") THEN "hotfix"
    ELSE IF Matches(branchName, "release/") THEN "release"
    ELSE "feature"

invalidChars == <<" ", "~", "^", ":", "?", "*", "[", "\\">>

validateBranchName(name) ==
    LET found == {i \in DOMAIN invalidChars : Includes(name, invalidChars[i])}
        first == CHOOSE i \in found : \A j \in found : i <= j
        type == getBranchType(name)
    IN  IF name = "" \/ Blank(name)
        THEN [valid |-> FALSE, error |-> "Branch name cannot be empty"]
        ELSE IF Includes(name, "..")
        THEN [valid |-> FALSE,
              error |-> "Branch name cannot contain consecutive dots"]
        ELSE IF StartsWith(name, "/") \/ EndsWith(name, "/")
        THEN [valid |-> FALSE,
              error |-> "Branch name cannot start or end with /"]
        ELSE IF Includes(name, "//")
        THEN [valid |-> FALSE,
              error |-> "Branch name cannot contain consecutive slashes"]
        ELSE IF found # {}
        THEN [valid |-> FALSE,
              error |-> "Branch name cannot contain \"" \o invalidChars[first]
                            \o "\""]
        ELSE IF type = "main" /\ name # "main"
        THEN [valid |-> FALSE, error |-> "Main branch must be named \"main\""]
        ELSE IF type = "develop" /\ name # "develop"
        THEN [valid |-> FALSE,
              error |-> "Develop branch must be named \"develop\""]
        ELSE [valid |-> TRUE, error |-> Undefined]

\* Object.keys(config.branchProtection) of the configuration the repository
\* is created with
branchProtection == {"main", "develop"}

Branch(name, type, headCommit, baseBranch, createdAt, createdBy, protected, description) ==
    [name |-> name, type |-> type, headCommit |-> headCommit,
     baseBranch |-> baseBranch, createdAt |-> createdAt,
     createdBy |-> createdBy, protected |-> protected,
     description |-> description]

\* BranchSchema.safeParse(branch).success
BranchSchemaOk(branch) ==
    /\ branch.type \in BranchTypes
    /\ branch.headCommit = Null \/ IsUuid(branch.headCommit)
    /\ branch.createdBy # Undefined

initializeDefaultBranches(t) ==
    [name \in {"main", "develop"} |->
        IF name = "main"
        THEN Branch("main", "main", Null, Undefined, t, "system", TRUE,
                    "Production-stable branch")
        ELSE Branch("develop", "develop", Null, Undefined, t, "system", FALSE,
                    "Integration branch for development")]

BranchManagerState == [branches |-> branches, currentBranch |-> currentBranch]

BranchReturned(bm, st, value) ==
    [bm |-> bm, st |-> st, threw |-> None, value |-> value]
BranchThrew(bm, st, error) ==
    [bm |-> bm, st |-> st, threw |-> error, value |-> None]

\* this.branches.set(name, branch)
MapSet(map, name, branch) ==
    [n \in DOMAIN map \cup {name} |-> IF n = name THEN branch ELSE map[n]]

\* this.branches.delete(name)
MapDelete(map, name) == [n \in DOMAIN map \ {name} |-> map[n]]

getDefaultBaseBranch(type) ==
    CASE type = "feature" -> "develop"
      [] type = "hotfix" -> "main"
      [] type = "main" -> "main"
      [] type = "develop" -> "main"
      [] OTHER -> "develop"

\* baseBranchObj?.headCommit || null
HeadOf(bm, base) ==
    IF base \in DOMAIN bm.branches /\ bm.branches[base].headCommit # ""
    THEN bm.branches[base].headCommit ELSE Null

createBranch(bm, st, name, createdBy, baseBranch, description, t) ==
    LET validation == validateBranchName(name)
        type == getBranchType(name)
        base == IF TruthyString(baseBranch) THEN baseBranch
                ELSE getDefaultBaseBranch(type)
        isProtected == name \in {"main", "develop"} \cup branchProtection
        branch == Branch(name, type, HeadOf(bm, base), base, t, createdBy,
                         isProtected, description)
        stored == [bm EXCEPT !.branches = MapSet(@, name, branch)]
        logged == log(st,
                      AuditLogEntry("BRANCH_CREATED", createdBy, name,
                                    "branch",
                                    <<Detail("baseBranch", JsonString(base)),
                                      Detail("type", JsonString(type)),
                                      Detail("description",
                                             IF description = Undefined
                                             THEN Undefined
                                             ELSE JsonString(description))>>),
                      t)
    IN  IF ~validation.valid
        THEN BranchThrew(bm, st, "Invalid branch name: " \o validation.error)
        ELSE IF name \in DOMAIN bm.branches
        THEN BranchThrew(bm, st, "Branch \"" \o name \o "\" already exists")
        ELSE IF ~BranchSchemaOk(branch)
        THEN BranchThrew(bm, st, "Invalid branch data")
        ELSE IF logged.threw # None
        THEN BranchThrew(stored, logged.st, logged.threw)
        ELSE BranchReturned(stored, logged.st, branch)

\* if (branch.protected) throw
DeleteRefused(bm, name) == bm.branches[name].protected

deleteBranch(bm, st, name, deletedBy, t) ==
    LET deleted == [bm EXCEPT !.branches = MapDelete(@, name)]
        logged == log(st,
                      AuditLogEntry("BRANCH_DELETED", deletedBy, name,
                                    "branch", <<>>),
                      t)
    IN  IF name \notin DOMAIN bm.branches
        THEN BranchThrew(bm, st, "Branch \"" \o name \o "\" does not exist")
        ELSE IF DeleteRefused(bm, name)
        THEN BranchThrew(bm, st,
                         "Cannot delete protected branch \"" \o name \o "\"")
        ELSE IF logged.threw # None
        THEN BranchThrew(deleted, logged.st, logged.threw)
        ELSE BranchReturned(deleted, logged.st, Undefined)

getBranch(bm, name) ==
    IF name \in DOMAIN bm.branches THEN bm.branches[name] ELSE Undefined

canPushToProtected(branchName, user) == TRUE

updateHeadCommit(bm, st, branchName, commitId, updatedBy, t) ==
    LET updated == [bm EXCEPT !.branches[branchName].headCommit = commitId]
        logged == log(st,
                      AuditLogEntry("BRANCH_UPDATED", updatedBy, branchName,
                                    "branch",
                                    <<Detail("newHeadCommit",
                                             JsonString(commitId))>>),
                      t)
    IN  IF branchName \notin DOMAIN bm.branches
        THEN BranchThrew(bm, st,
                         "Branch \"" \o branchName \o "\" does not exist")
        ELSE IF /\ bm.branches[branchName].protected
                /\ ~canPushToProtected(branchName, updatedBy)
        THEN BranchThrew(bm, st,
                         "Cannot push to protected branch \"" \o branchName
                             \o "\" without approval")
        ELSE IF logged.threw # None
        THEN BranchThrew(updated, logged.st, logged.threw)
        ELSE BranchReturned(updated, logged.st, Undefined)

getCurrentBranch(bm) == bm.currentBranch

setCurrentBranch(bm, st, name) ==
    IF name \notin DOMAIN bm.branches
    THEN BranchThrew(bm, st, "Branch \"" \o name \o "\" does not exist")
    ELSE BranchReturned([bm EXCEPT !.currentBranch = name], st, Undefined)

----------------------------------------------------------------------------
(* Inputs of the calls *)

\* entries the collaborators log; the last one has a targetType outside the
\* closed set and is rejected by the schema
LogEntries ==
    {AuditLogEntry("CREATE", "alice", "art-1", "artifact", <<>>),
     AuditLogEntry("UPDATE", "bob", "art-1", "artifact",
                   <<Detail("field", JsonString("name"))>>),
     AuditLogEntry("CREATE", "alice", "art-1", "pipeline", <<>>)}

\* metrics samples: healthy (every value on its threshold), every threshold
\* breached, error rate and latency, error rate only, latency only
MetricsSamples ==
    {[errorRate |-> 5, safetyViolations |-> 0, averageResponseTimeMs |-> 5000],
     [errorRate |-> 90, safetyViolations |-> 1, averageResponseTimeMs |-> 9000],
     [errorRate |-> 90, safetyViolations |-> 0, averageResponseTimeMs |-> 9000],
     [errorRate |-> 90, safetyViolations |-> 0, averageResponseTimeMs |-> 100],
     [errorRate |-> 0, safetyViolations |-> 0, averageResponseTimeMs |-> 9000]}

\* parameters of direct initiateRollback calls; the second carries a
\* targetCommitId that is no uuid and is rejected by the schema
InitiateParams ==
    {[targetVersion |-> "1.0.0", targetCommitId |-> Undefined,
      trigger |-> "manual", triggerReason |-> "scheduled_rollback",
      initiatedBy |-> "alice"],
     [targetVersion |-> "1.0.0", targetCommitId |-> "HEAD",
      trigger |-> "manual", triggerReason |-> "manual_request",
      initiatedBy |-> "alice"]}

\* who cancels: a user, or a caller that passes no user at all
Cancellers == {"bob", Undefined}

\* options of getLogs: every filter left out, given as the empty string
\* (actor) or given with a value; limit and offset left out, 0 or more
FilterOptions ==
    {[NoOptions EXCEPT !.actor = actor, !.action = action, !.target = target,
                       !.targetType = targetType, !.startDate = startDate,
                       !.endDate = endDate] :
        actor \in {Undefined, "", "alice"},
        action \in {Undefined, "UPDATE"},
        target \in {Undefined, "art-1"},
        targetType \in {Undefined, "commit"},
        startDate \in {{}, {StartTime + TickMs}},
        endDate \in {{}, {StartTime + TickMs}}}

QueryOptions ==
    {[options EXCEPT !.limit = limit, !.offset = offset] :
        options \in FilterOptions,
        limit \in {{}, {0}, {1}, {2}},
        offset \in {{}, {0}, {1}}}

ExportFormats == {"json", "csv"}

UnknownId == "uuid-unknown"
RollbackIds == DOMAIN rollbacks \cup {UnknownId}
ArtifactLists == {<<"uuid-art-1">>}

----------------------------------------------------------------------------
(* The state machine *)

Init ==
    /\ now = StartTime
    /\ logs = <<>>
    /\ lastHash = createInitialHash(StartTime)
    /\ tampered = <<>>
    /\ rollbacks = [i \in {} |-> {}]
    /\ order = <<>>
    /\ lastRollbackTime = 0
    /\ rollbackCountLastHour = 0
    /\ checkInterval = Null
    /\ timers = 0
    /\ notified = <<>>
    /\ thisConfig = constructedConfig
    /\ tasks = <<>>
    /\ branches = initializeDefaultBranches(StartTime)
    /\ currentBranch = "main"

\* a call ended as r: the services are in the state r.st
Call(r) ==
    /\ Len(r.st.logs) <= MaxLogs
    /\ Cardinality(DOMAIN r.st.rollbacks) <= MaxRollbacks
    /\ logs' = r.st.logs
    /\ lastHash' = r.st.lastHash
    /\ rollbacks' = r.st.rollbacks
    /\ order' = r.st.order
    /\ lastRollbackTime' = r.st.lastRollbackTime
    /\ rollbackCountLastHour' = r.st.rollbackCountLastHour
    /\ checkInterval' = r.st.checkInterval
    /\ timers' = r.st.timers
    /\ notified' = r.st.notified
    /\ UNCHANGED <<now, tampered, thisConfig, tasks, branches, currentBranch>>

Tick ==
    /\ now < StartTime + MaxTicks * TickMs
    /\ now' = now + TickMs
    /\ UNCHANGED <<logs, lastHash, tampered, rollbacks, order,
                   lastRollbackTime, rollbackCountLastHour, checkInterval,
                   timers, notified, thisConfig, tasks, branches,
                   currentBranch>>

Log ==
    \E entry \in LogEntries : Call(log(State, entry, now))

CheckAndTriggerRollback ==
    \E metrics \in MetricsSamples :
        Call(checkAndTriggerRollback(State, metrics, now))

InitiateRollback ==
    \E params \in InitiateParams :
        Call(initiateRollback(State, params, now))

ExecuteRollback ==
    \E id \in RollbackIds :
        Call(executeRollback(State, id, now))

CompleteRollback ==
    \E id \in RollbackIds, affected \in ArtifactLists :
        Call(completeRollback(State, id, affected, now))

FailRollback ==
    \E id \in RollbackIds :
        Call(failRollback(State, id, "timeout", now))

EmergencyRollback ==
    Call(emergencyRollback(State, "ops", "1.0.0", now))

CancelRollbackBy(cancellers) ==
    \E id \in RollbackIds, cancelledBy \in cancellers :
        Call(cancelRollback(State, id, cancelledBy, now))

CancelRollback == CancelRollbackBy(Cancellers \ {Undefined})

GovernorNext ==
    \/ CheckAndTriggerRollback
    \/ InitiateRollback
    \/ ExecuteRollback
    \/ CompleteRollback
    \/ FailRollback
    \/ EmergencyRollback
    \/ CancelRollback

\* the ledger alone, written by its collaborators
LedgerNext == Tick \/ Log

LedgerSpec == Init /\ [][LedgerNext]_vars

\* the ledger with its retention job
ArchiveOldLogs == Call(archiveOldLogs(State, now))

PruneNext == LedgerNext \/ ArchiveOldLogs

PruneSpec == Init /\ [][PruneNext]_vars

\* Storage corruption: one stored field of one entry is overwritten, once,
\* and nothing else happens afterwards.
Genesis == createInitialHash(StartTime)
Forged == sha256(<<"forged">>)

TamperFields ==
    {"id", "action", "actor", "target", "targetType", "timestamp", "details",
     "hash", "previousHash"}

TamperValues(k, field) ==
    CASE field = "id" -> {"uuid-1", "uuid-9"}
      [] field = "action" -> {"CREATE", "DELETE"}
      [] field = "actor" -> {"alice", "mallory"}
      [] field = "target" -> {"art-1", "art-2"}
      [] field = "targetType" -> {"artifact", "commit"}
      [] field = "timestamp" -> {StartTime, logs[k].timestamp + 1}
      [] field = "details" -> {<<>>, <<Detail("field", JsonString("owner"))>>}
      [] field = "hash" -> {EmptyString, Genesis, Forged, logs[1].hash}
      [] field = "previousHash" ->
             {NoHash, EmptyString, Genesis, Forged, logs[Len(logs)].hash}

Tamper ==
    /\ tampered = <<>>
    /\ \E k \in 1..Len(logs), field \in TamperFields :
           \E v \in TamperValues(k, field) :
              /\ v # logs[k][field]
              /\ logs' = [logs EXCEPT ![k][field] = v]
              /\ tampered' = <<k, field>>
    /\ UNCHANGED <<now, lastHash, rollbacks, order, lastRollbackTime,
                   rollbackCountLastHour, checkInterval, timers, notified,
                   thisConfig, tasks, branches, currentBranch>>

TamperNext == (tampered = <<>> /\ LedgerNext) \/ Tamper

TamperSpec == Init /\ [][TamperNext]_vars

\* the governor and the ledger it writes to
Next == Tick \/ GovernorNext

Spec == Init /\ [][Next]_vars

\* the governor with a caller that the compiler did not check: it cancels
\* without naming the user
CancelRollbackUntyped == CancelRollbackBy({Undefined})

UntypedNext == Next \/ CancelRollbackUntyped

UntypedSpec == Init /\ [][UntypedNext]_vars

\* The ledger with collaborators that log free text: an actor with the
\* delimiter of the CSV export, a target with a quote, an action with a
\* line break.
FreeTextEntries ==
    {AuditLogEntry("CREATE", "alice", "art-1", "artifact", <<>>),
     AuditLogEntry("CREATE", "smith, j", "art-1", "artifact", <<>>),
     AuditLogEntry("CREATE", "alice", "the \"main\" set", "artifact", <<>>),
     AuditLogEntry("CREATE\nUPDATE", "alice", "art-1", "artifact", <<>>)}

LogFreeText ==
    \E entry \in FreeTextEntries : Call(log(State, entry, now))

FreeTextNext == Tick \/ LogFreeText

FreeTextSpec == Init /\ [][FreeTextNext]_vars

\* The governor with an owner of the config object who writes to it: the
\* constructor stores the object, not a copy, so the governor reads what
\* the owner wrote.
TunedConfigs ==
    {[constructedConfig EXCEPT !.errorRateThreshold = 50,
                               !.cooldownSeconds = 1500]}

\* config.errorRateThreshold = ...; config.cooldownSeconds = ...
Reconfigure ==
    /\ \E cfg \in TunedConfigs : thisConfig' = cfg
    /\ UNCHANGED <<now, logs, lastHash, tampered, rollbacks, order,
                   lastRollbackTime, rollbackCountLastHour, checkInterval,
                   timers, notified, tasks, branches, currentBranch>>

ConfigNext ==
    \/ Tick
    \/ CheckAndTriggerRollback
    \/ InitiateRollback
    \/ CompleteRollback
    \/ Reconfigure

ConfigSpec == Init /\ [][ConfigNext]_vars

\* The ledger with a caller that writes to what it was handed.  log returns
\* the object it pushed and getLogs returns an array of the stored objects,
\* so an assignment to a property of a returned entry is an assignment to
\* the stored entry.
PositionOf(ls, id) == CHOOSE k \in 1..Len(ls) : ls[k].id = id

\* entry.actor = 'mallory', on the entry at position k
Assigned(ls, k) == [ls EXCEPT ![k].actor = "mallory"]

\* const entry = await log(...); entry.actor = 'mallory'
LogAndAssign ==
    \E entry \in LogEntries :
        \E r \in {log(State, entry, now)} :
            /\ r.threw = None
            /\ Call([r EXCEPT !.st.logs =
                        Assigned(@, PositionOf(@, r.value))])

\* getLogs(options)[i].actor = 'mallory'
GetLogsAndAssign ==
    \E options \in {NoOptions, [NoOptions EXCEPT !.limit = {1}]} :
        \E r \in {getLogs(State, options)} :
            \E i \in 1..Len(r.value) :
                Call([r EXCEPT !.st.logs = Assigned(@, r.value[i])])

CallerNext == LedgerNext \/ LogAndAssign \/ GetLogsAndAssign

CallerSpec == Init /\ [][CallerNext]_vars

\* The branch manager and the ledger it writes to, one call after the
\* other.  Names: the two default branches, a feature and a hotfix branch,
\* and a name with a blank, which validateBranchName refuses.
BranchNames == {"main", "develop", "feature/x", "hotfix/y", "feature/a b"}
CommitIds == {"uuid-c1"}

BranchCall(r) ==
    /\ Len(r.st.logs) <= MaxLogs
    /\ logs' = r.st.logs
    /\ lastHash' = r.st.lastHash
    /\ branches' = r.bm.branches
    /\ currentBranch' = r.bm.currentBranch
    /\ UNCHANGED <<now, tampered, rollbacks, order, lastRollbackTime,
                   rollbackCountLastHour, checkInterval, timers, notified,
                   thisConfig, tasks>>

CreateBranch ==
    \E name \in BranchNames, baseBranch \in {Undefined, "main"} :
        BranchCall(createBranch(BranchManagerState, State, name, "alice",
                                baseBranch, Undefined, now))

DeleteBranch ==
    \E name \in BranchNames :
        BranchCall(deleteBranch(BranchManagerState, State, name, "alice",
                                now))

UpdateHeadCommit ==
    \E name \in BranchNames, commitId \in CommitIds :
        BranchCall(updateHeadCommit(BranchManagerState, State, name,
                                    commitId, "alice", now))

SetCurrentBranch ==
    \E name \in BranchNames :
        BranchCall(setCurrentBranch(BranchManagerState, State, name))

BranchNext ==
    \/ CreateBranch
    \/ DeleteBranch
    \/ UpdateHeadCommit
    \/ SetCurrentBranch

BranchSpec == Init /\ [][BranchNext]_vars


----------------------------------------------------------------------------
(* Overlapping calls.  An async method runs, from the call on, until its   *)
(* first await; there it parks and the event loop runs other tasks; once   *)
(* resumed it runs to its next await or to its end.  A task is parked at a *)
(* label of the code; the labels in AwaitPoints are the awaits of the      *)
(* code, the other labels are places where the code goes on at once.       *)

MaxTasks == 3       \* async calls made in one behaviour

\* the awaits: in initiateRollback, checkAndTriggerRollback,
\* executeRollback and in the callback of startMonitoring
AwaitPoints_GateYield ==
    {"initiateRollback:log", "checkAndTriggerRollback:initiateRollback",
     "executeRollback:log", "tick:getMetrics",
     "tick:checkAndTriggerRollback", "checkAndTriggerRollback:gate"}

AwaitPoints_PushYield ==
    {"initiateRollback:log", "checkAndTriggerRollback:initiateRollback",
     "executeRollback:log", "tick:getMetrics",
     "tick:checkAndTriggerRollback", "log:push"}

AwaitPoints_CheckYield ==
    {"initiateRollback:log", "checkAndTriggerRollback:initiateRollback",
     "executeRollback:log", "tick:getMetrics",
     "tick:checkAndTriggerRollback", "executeRollback:check"}

AwaitPoints ==
    {"initiateRollback:log", "checkAndTriggerRollback:initiateRollback",
     "executeRollback:log", "tick:getMetrics",
     "tick:checkAndTriggerRollback"}

\* a call of method op with argument arg, made at time t and about to run
NewTask(op, arg, t) ==
    [op |-> op, arg |-> arg, pc |-> "start", local |-> None,
     threw |-> None, value |-> None, startedAt |-> t, settledAt |-> {}]

\* the task goes on at label pc
At(st, task, pc) == [st |-> st, task |-> [task EXCEPT !.pc = pc]]

\* the task goes on at label pc; r is what the call it made there gives
Carry(st, task, pc, r) ==
    [st |-> st,
     task |-> [task EXCEPT !.pc = pc, !.threw = r.threw, !.value = r.value]]

\* the promise of the task is rejected (threw) or resolved (value)
Settle(st, task, t, threw, value) ==
    [st |-> st,
     task |-> [task EXCEPT !.pc = "settled", !.threw = threw,
                           !.value = value, !.settledAt = {t}]]

\* a callback that lets the error of its tick escape
Caught_Rethrown(st, task, t, error) == Settle(st, task, t, error, None)

\* the catch of the monitor callback: the error is written to the console
Caught(st, task, t, error) == Settle(st, task, t, None, "caught")

\* checkAndTriggerRollback ends: in its caller, or in the callback that
\* awaits it
CheckReturns(st, task, t, threw, value) ==
    IF task.op = "tick"
    THEN Carry(st, task, "tick:checkAndTriggerRollback",
               [threw |-> threw, value |-> value])
    ELSE Settle(st, task, t, threw, value)

\* checkAndTriggerRollback up to the call of initiateRollback
CheckStart(st, task, t) ==
    IF CooldownActive(st, t) THEN CheckReturns(st, task, t, None, None)
    ELSE IF RateLimited(st) THEN CheckReturns(st, task, t, None, None)
    ELSE IF TriggerReasonOf(task.arg) # None
    THEN At(st, [task EXCEPT !.local = TriggerReasonOf(task.arg)],
            "checkAndTriggerRollback:gate")
    ELSE CheckReturns(st, task, t, None, None)

\* the code of the task from its label to the next label
Block(st, task, t, input) ==
    CASE task.pc = "start" /\ task.op = "log" ->
            LET auditLog == AuditLogOf(st, task.arg, t)
            IN  IF ~AuditLogSchemaOk(auditLog)
                THEN Settle(Rejected(st, auditLog), task, t,
                            "Invalid audit log", None)
                ELSE At(st, [task EXCEPT !.local = auditLog], "log:push")
      [] task.pc = "log:push" ->
            Settle(Pushed(st, task.local), task, t, None, task.local.id)
      [] task.pc = "start" /\ task.op = "executeRollback" ->
            IF task.arg \notin DOMAIN st.rollbacks
            THEN Settle(st, task, t, "not found", None)
            ELSE IF ~ExecuteAllowed(st.rollbacks[task.arg])
            THEN Settle(st, task, t, "Rollback is not in pending status",
                        None)
            ELSE At(st, task, "executeRollback:check")
      [] task.pc = "executeRollback:check" ->
            LET r == ExecuteCommit(st, task.arg, t)
            IN  Carry(r.st, task, "executeRollback:log", r)
      [] task.pc = "executeRollback:log" ->
            Settle(st, task, t, task.threw, task.value)
      [] task.pc = "start" /\ task.op = "initiateRollback" ->
            LET r == InitiateUntilLogged(st, task.arg, t)
            IN  IF r.threw = "Invalid rollback"
                THEN Settle(r.st, task, t, r.threw, None)
                ELSE Carry(r.st, task, "initiateRollback:log", r)
      [] task.pc = "start" /\ task.op = "checkAndTriggerRollback" ->
            CheckStart(st, task, t)
      [] task.pc = "checkAndTriggerRollback:gate" ->
            LET r == InitiateUntilLogged(st,
                         [targetVersion |-> "", targetCommitId |-> Undefined,
                          trigger |-> "automated",
                          triggerReason |-> task.local,
                          initiatedBy |-> "system"], t)
            IN  IF r.threw = "Invalid rollback"
                THEN CheckReturns(r.st, task, t, r.threw, None)
                ELSE Carry(r.st, task, "initiateRollback:log", r)
      [] task.pc = "initiateRollback:log" ->
            LET st1 == IF task.threw = None THEN Notify(st, task.value)
                       ELSE st
            IN  IF task.op = "initiateRollback"
                THEN Settle(st1, task, t, task.threw, task.value)
                ELSE At(st1, task, "checkAndTriggerRollback:initiateRollback")
      [] task.pc = "checkAndTriggerRollback:initiateRollback" ->
            CheckReturns(st, task, t, task.threw, task.value)
      [] task.pc = "start" /\ task.op = "tick" ->
            At(st, task, "tick:getMetrics")
      [] task.pc = "tick:getMetrics" ->
            IF "error" \in DOMAIN input
            THEN Caught(st, task, t, input.error)
            ELSE CheckStart(st, [task EXCEPT !.arg = input], t)
      [] task.pc = "tick:checkAndTriggerRollback" ->
            IF task.threw # None
            THEN Caught(st, task, t, task.threw)
            ELSE Settle(st, task, t, None, None)

\* the task runs until it parks at an await or settles; r is what its
\* next block gives
RECURSIVE Run(_, _, _, _)
Run(st, task, t, input) ==
    CHOOSE out \in
        {IF r.task.pc \in AwaitPoints \cup {"settled"} THEN r
         ELSE Run(r.st, r.task, t, input) :
            r \in {Block(st, task, t, input)}} : TRUE

\* the guard of startMonitoring that lets every call through
StartAllowed_Always(st) == TRUE

\* the guard of startMonitoring
StartAllowed(st) == st.checkInterval = Null

\* setInterval(callback, intervalMs): one more interval is active
startMonitoring(st) ==
    IF ~StartAllowed(st) THEN Threw(st, "Monitoring already started")
    ELSE Returned([st EXCEPT !.checkInterval = "Timeout",
                             !.timers = @ + 1], None)

\* clearInterval(this.checkInterval): the interval is active no more
stopMonitoring(st) ==
    IF st.checkInterval # Null
    THEN Returned([st EXCEPT !.checkInterval = Null, !.timers = @ - 1], None)
    ELSE Returned(st, None)

\* the intervalMs startMonitoring is called with
IntervalMs == TickMs

\* what getMetrics() gives: a healthy sample, one with every threshold
\* breached, or a rejection
HealthyMetrics ==
    [errorRate |-> 5, safetyViolations |-> 0, averageResponseTimeMs |-> 5000]
BreachedMetrics ==
    [errorRate |-> 90, safetyViolations |-> 1, averageResponseTimeMs |-> 9000]
ProviderError == [error |-> "metrics unavailable"]
ProviderResults == {HealthyMetrics, BreachedMetrics, ProviderError}

\* what a parked task is resumed with
InputsAt(pc) == IF pc = "tick:getMetrics" THEN ProviderResults ELSE {None}

\* a task ran as r: the services are in the state r.st
Ran(r) ==
    /\ Len(r.st.logs) <= MaxLogs
    /\ Cardinality(DOMAIN r.st.rollbacks) <= MaxRollbacks
    /\ logs' = r.st.logs
    /\ lastHash' = r.st.lastHash
    /\ rollbacks' = r.st.rollbacks
    /\ order' = r.st.order
    /\ lastRollbackTime' = r.st.lastRollbackTime
    /\ rollbackCountLastHour' = r.st.rollbackCountLastHour
    /\ checkInterval' = r.st.checkInterval
    /\ timers' = r.st.timers
    /\ notified' = r.st.notified
    /\ UNCHANGED <<tampered, thisConfig, branches, currentBranch>>

\* a method is called: it runs to its first await
StartTask(op, arg) ==
    /\ Len(tasks) < MaxTasks
    /\ \E r \in {Run(State, NewTask(op, arg, now), now, None)} :
           Ran(r) /\ tasks' = Append(tasks, r.task)
    /\ UNCHANGED now

StartLog == \E entry \in LogEntries : StartTask("log", entry)

StartCheckAndTriggerRollback ==
    \E metrics \in MetricsSamples :
        StartTask("checkAndTriggerRollback", metrics)

StartInitiateRollback ==
    \E params \in InitiateParams : StartTask("initiateRollback", params)

StartExecuteRollback ==
    \E id \in RollbackIds : StartTask("executeRollback", id)

\* the event loop resumes a parked task
Resume ==
    \E i \in 1..Len(tasks) :
        /\ tasks[i].pc # "settled"
        /\ \E input \in InputsAt(tasks[i].pc) :
               \E r \in {Run(State, tasks[i], now, input)} :
                   Ran(r) /\ tasks' = [tasks EXCEPT ![i] = r.task]
        /\ UNCHANGED now

ConcNext ==
    \/ StartLog
    \/ StartCheckAndTriggerRollback
    \/ StartInitiateRollback
    \/ StartExecuteRollback
    \/ Resume

\* calls of the ledger and the governor that overlap, all within one
\* millisecond
ConcSpec == Init /\ [][ConcNext]_vars

StartMonitoring == Call(startMonitoring(State))

StopMonitoring == Call(stopMonitoring(State))

\* an active interval is due: intervalMs have passed and the runtime calls
\* the callback
TimerFire ==
    /\ timers > 0
    /\ Len(tasks) < MaxTasks
    /\ now < StartTime + MaxTicks * TickMs
    /\ now' = now + IntervalMs
    /\ \E r \in {Run(State, NewTask("tick", None, now + IntervalMs),
                     now + IntervalMs, None)} :
           Ran(r) /\ tasks' = Append(tasks, r.task)

MonitorNext ==
    \/ StartMonitoring
    \/ StopMonitoring
    \/ TimerFire
    \/ Resume

\* the monitor loop
MonitorSpec == Init /\ [][MonitorNext]_vars

----------------------------------------------------------------------------
(* Properties *)

Statuses(id) == rollbacks[id].status
LastLog == logs[Len(logs)]
LastRecord == rollbacks[order[Len(order)]]
CooldownMs == config.cooldownSeconds * 1000
Automated == {id \in DOMAIN rollbacks : rollbacks[id].trigger = "automated"}
Qualifying(m) ==
    \/ m.safetyViolations > config.safetyViolationThreshold
    \/ m.errorRate > config.errorRateThreshold
    \/ m.averageResponseTimeMs > config.performanceThresholdMs

\* the records created in the hour that ends at t
RecordsInTrailingHour(t) ==
    {id \in DOMAIN rollbacks :
        rollbacks[id].timestamp > t - HourMs /\ rollbacks[id].timestamp <= t}

\* C1: after any number of appends on a fresh ledger, without tampering or
\* pruning, verifyIntegrity() reports the ledger valid.
C1_ChainValid == verifyIntegrity(logs).valid

\* C2: after appends only, the first entry's previousHash is the genesis
\* value and every later entry's previousHash is the hash of the entry
\* before it.
C2_ChainLinked ==
    /\ Len(logs) > 0 => logs[1].previousHash = Genesis
    /\ \A i \in 2..Len(logs) : logs[i].previousHash = logs[i - 1].hash

C2_Witness == Len(logs) = MaxLogs /\ lastHash = LastLog.hash

\* C3: once a single stored field of the entry at index k was changed,
\* verifyIntegrity() reports the ledger invalid, broken at index k.
C3_TamperDetected ==
    tampered # <<>> =>
        verifyIntegrity(logs) = [valid |-> FALSE, brokenAt |-> tampered[1] - 1]

\* C4: a completed or failed record never changes status again, and no
\* record that left pending ever returns to pending.
C4_Terminal ==
    [][\A id \in DOMAIN rollbacks :
          /\ Statuses(id) \in {"completed", "failed"} =>
                 rollbacks'[id].status = Statuses(id)
          /\ Statuses(id) # "pending" => rollbacks'[id].status # "pending"]_vars

\* C5: executeRollback(id) succeeds exactly on a pending record, which it
\* leaves in_progress; on any other record it throws and changes neither
\* the records nor the ledger.
C5_ExecuteOnlyPending ==
    \A id \in DOMAIN rollbacks :
        LET r == executeRollback(State, id, now)
        IN  IF Statuses(id) = "pending"
            THEN /\ r.threw = None
                 /\ r.st.rollbacks[id].status = "in_progress"
            ELSE /\ r.threw # None
                 /\ r.st = State

C5_Witness ==
    /\ Len(logs) > 0
    /\ LastLog.action = "ROLLBACK_IN_PROGRESS"
    /\ Statuses(LastLog.target) = "in_progress"
    /\ executeRollback(State, LastLog.target, now).threw # None

\* C6: cancelRollback(id, cancelledBy) succeeds exactly on a pending
\* record, which it leaves failed with the canceller named in error and
\* completedAt set; on any other record it throws and changes neither the
\* records nor the ledger.
C6_CancelOnlyPending ==
    \A id \in DOMAIN rollbacks, cancelledBy \in {"bob", "carol"} :
        LET r == cancelRollback(State, id, cancelledBy, now)
        IN  IF Statuses(id) = "pending"
            THEN /\ r.threw = None
                 /\ r.st.rollbacks[id].status = "failed"
                 /\ r.st.rollbacks[id].error = "Cancelled by " \o cancelledBy
                 /\ r.st.rollbacks[id].completedAt = {now}
            ELSE /\ r.threw # None
                 /\ r.st = State

C6_Witness ==
    /\ Len(logs) > 0
    /\ LastLog.action = "ROLLBACK_CANCELLED"
    /\ Statuses(LastLog.target) = "failed"
    /\ rollbacks[LastLog.target].error = "Cancelled by bob"
    /\ cancelRollback(State, LastLog.target, "bob", now).threw # None

\* C7: a record becomes completed only from in_progress, and becomes failed
\* only from in_progress or pending.
C7_LegalTerminalSteps ==
    [][\A id \in DOMAIN rollbacks :
          /\ (rollbacks'[id].status = "completed" /\ Statuses(id) # "completed")
                 => Statuses(id) = "in_progress"
          /\ (rollbacks'[id].status = "failed" /\ Statuses(id) # "failed")
                 => Statuses(id) \in {"in_progress", "pending"}]_vars

\* C8: a checkAndTriggerRollback call made less than cooldownSeconds after
\* the last record was created returns none and changes nothing, whatever
\* the metrics; so two records created by evaluate are at least
\* cooldownSeconds apart.
C8_Cooldown ==
    /\ (order # <<>> /\ now - LastRecord.timestamp < CooldownMs) =>
           \A m \in MetricsSamples :
               LET r == checkAndTriggerRollback(State, m, now)
               IN  r.value = None /\ r.threw = None /\ r.st = State
    /\ \A a, b \in Automated :
           (a # b /\ rollbacks[a].timestamp <= rollbacks[b].timestamp) =>
               rollbacks[b].timestamp - rollbacks[a].timestamp >= CooldownMs

C8_Witness ==
    /\ order # <<>>
    /\ LastRecord.trigger = "automated"
    /\ now > LastRecord.timestamp
    /\ now - LastRecord.timestamp < CooldownMs

\* C9: checkAndTriggerRollback creates no record when maxRollbacksPerHour
\* or more records were created in the trailing hour; so no hour holds
\* more than maxRollbacksPerHour records created by evaluate.
C9_RateCap ==
    /\ Cardinality(RecordsInTrailingHour(now)) >= config.maxRollbacksPerHour =>
           \A m \in MetricsSamples :
               LET r == checkAndTriggerRollback(State, m, now)
               IN  r.value = None /\ r.st.rollbacks = rollbacks
    /\ \A a \in Automated :
           Cardinality(RecordsInTrailingHour(rollbacks[a].timestamp)
                           \cap Automated) <= config.maxRollbacksPerHour

C9_Witness ==
    /\ Cardinality(RecordsInTrailingHour(now)) >= config.maxRollbacksPerHour
    /\ ~CooldownActive(State, now)
    /\ Automated # {}

\* C10: once every record is more than an hour (and the cooldown) old, a
\* checkAndTriggerRollback call with qualifying metrics creates a record,
\* also after maxRollbacksPerHour records have been created.
C10_WindowRecovers ==
    (/\ Cardinality(DOMAIN rollbacks) >= config.maxRollbacksPerHour
     /\ \A id \in DOMAIN rollbacks :
            /\ now - rollbacks[id].timestamp > HourMs
            /\ now - rollbacks[id].timestamp >= CooldownMs)
    => \A m \in MetricsSamples :
           Qualifying(m) =>
               checkAndTriggerRollback(State, m, now).value # None

\* C11: a checkAndTriggerRollback call that passes both gates with
\* qualifying metrics creates exactly one record, whose reason is
\* safety_violation if the safety violations exceed their threshold, else
\* error_rate_spike if the error rate exceeds its threshold, else
\* performance_degradation.
C11_Priority ==
    \A m \in MetricsSamples :
        (~CooldownActive(State, now) /\ ~RateLimited(State) /\ Qualifying(m)) =>
            LET r == checkAndTriggerRollback(State, m, now)
                created == DOMAIN r.st.rollbacks \ DOMAIN rollbacks
            IN  /\ Cardinality(created) = 1
                /\ \A id \in created :
                       /\ r.value = id
                       /\ r.st.rollbacks[id].reason =
                              IF m.safetyViolations >
                                     config.safetyViolationThreshold
                              THEN "safety_violation"
                              ELSE IF m.errorRate > config.errorRateThreshold
                              THEN "error_rate_spike"
                              ELSE "performance_degradation"

C11_Witness ==
    \E a, b \in Automated :
        /\ rollbacks[a].reason = "safety_violation"
        /\ rollbacks[b].reason = "error_rate_spike"

\* C12: when archiveOldLogs removes some entries of an untampered ledger
\* and retains at least one, verifyIntegrity() reports the pruned ledger
\* valid.
C12_PruneVerifiable ==
    [][(Len(logs') < Len(logs) /\ Len(logs') > 0) =>
           verifyIntegrity(logs').valid]_vars

\* entries the schema rejects: a targetType outside the closed set, a
\* missing actor, a missing target
InvalidEntries ==
    {AuditLogEntry("CREATE", "alice", "art-1", "pipeline", <<>>),
     AuditLogEntry("CREATE", Undefined, "art-1", "artifact", <<>>),
     AuditLogEntry("DELETE", "bob", Undefined, "commit", <<>>)}

\* C13: a log call that rejects its entry as invalid leaves the entry
\* sequence and the cached tail hash as they were.
C13_RejectedAppend ==
    \A entry \in LogEntries \cup InvalidEntries :
        LET r == log(State, entry, now)
        IN  /\ entry \in InvalidEntries => r.threw # None
            /\ r.threw # None =>
                   /\ r.st.logs = logs
                   /\ r.st.lastHash = lastHash
                   /\ r.st = State

C13_Witness ==
    /\ Len(logs) > 0
    /\ lastHash = LastLog.hash
    /\ \E entry \in LogEntries :
           LET r == log(State, entry, now)
           IN  r.threw = "Invalid audit log" /\ r.st.logs = logs

\* what the governor keeps: the records and the two gates
GovernorState(st) ==
    [rollbacks |-> st.rollbacks, lastRollbackTime |-> st.lastRollbackTime,
     rollbackCountLastHour |-> st.rollbackCountLastHour]

\* the calls of the five governor operations on the current state
GovernorCalls ==
    {initiateRollback(State, params, now) : params \in InitiateParams}
    \cup {executeRollback(State, id, now) : id \in RollbackIds}
    \cup {completeRollback(State, id, affected, now) :
              id \in RollbackIds, affected \in ArtifactLists}
    \cup {failRollback(State, id, "timeout", now) : id \in RollbackIds}
    \cup {cancelRollback(State, id, cancelledBy, now) :
              id \in RollbackIds, cancelledBy \in Cancellers}

\* C14: an initiateRollback, executeRollback, completeRollback,
\* failRollback or cancelRollback call that ends in an error, also an
\* error of the ledger append it performs, leaves the records, their
\* status, completedAt and error, lastRollbackTime and the rate counter as
\* they were.
C14_ErrorsChangeNothing ==
    \A r \in GovernorCalls :
        r.threw # None => GovernorState(r.st) = GovernorState(State)

\* the calls of a method among the tasks
TasksOf(op) == {i \in 1..Len(tasks) : tasks[i].op = op}
InFlight(i) == tasks[i].pc # "settled"

\* the check tasks that found both gates open
PassedGates ==
    {i \in TasksOf("checkAndTriggerRollback") :
        tasks[i].pc = "checkAndTriggerRollback:gate" \/ tasks[i].value # None}

\* C15: of the checkAndTriggerRollback calls that overlap, whatever the
\* interleaving at their awaits, at most one passes the cooldown gate and
\* creates a record; no call is parked between the gate check and the
\* update of lastRollbackTime and the rate counter.
C15_NoGateRace ==
    /\ Cardinality(PassedGates) <= 1
    /\ Cardinality(Automated) <= 1
    /\ \A i \in PassedGates :
           /\ tasks[i].pc # "checkAndTriggerRollback:gate"
           /\ tasks[i].value \in Automated
           /\ lastRollbackTime >= rollbacks[tasks[i].value].timestamp
           /\ rollbackCountLastHour >= 1

C15_Witness ==
    \E i, j \in TasksOf("checkAndTriggerRollback") :
        /\ i < j
        /\ Qualifying(tasks[i].arg) /\ Qualifying(tasks[j].arg)
        /\ tasks[i].pc = "initiateRollback:log"
        /\ tasks[i].value \in Automated
        /\ ~InFlight(j)
        /\ tasks[j].value = None

\* C16: whatever the interleaving of the log calls of the collaborators,
\* every entry is linked to the tail that was current when it was
\* appended: the first to the initial hash, each later one to the hash of
\* the entry before it, no two entries to the same hash, and the cached
\* tail is the hash of the last entry.
C16_SerializedAppends ==
    /\ \A i \in 1..Len(logs) :
           logs[i].previousHash = IF i = 1 THEN Genesis ELSE logs[i - 1].hash
    /\ \A i, j \in 1..Len(logs) :
           i # j => logs[i].previousHash # logs[j].previousHash
    /\ lastHash = IF Len(logs) = 0 THEN Genesis ELSE LastLog.hash

C16_Witness ==
    /\ Len(logs) = 3
    /\ \E i, j \in TasksOf("log") :
           /\ tasks[i].arg.actor # tasks[j].arg.actor
           /\ tasks[i].threw = None /\ tasks[j].threw = None
    /\ \E k \in 1..Len(tasks) :
           tasks[k].pc = "initiateRollback:log" /\ tasks[k].threw = None

\* the executeRollback calls on a record that found the record
ExecutionsOf(id) ==
    {i \in TasksOf("executeRollback") :
        tasks[i].arg = id /\ tasks[i].threw # "not found"}

\* C17: of the executeRollback calls on one pending record that overlap,
\* exactly one succeeds and every other one fails because the record is
\* not pending; the ledger holds exactly one ROLLBACK_IN_PROGRESS entry
\* for the record.
C17_SingleExecution ==
    \A id \in DOMAIN rollbacks :
        ExecutionsOf(id) # {} =>
            /\ Cardinality({i \in ExecutionsOf(id) : tasks[i].threw = None})
                   = 1
            /\ \A i \in ExecutionsOf(id) :
                   tasks[i].threw \in
                       {None, "Rollback is not in pending status"}
            /\ Cardinality({k \in 1..Len(logs) :
                               /\ logs[k].action = "ROLLBACK_IN_PROGRESS"
                               /\ logs[k].target = id}) = 1

C17_Witness ==
    \E id \in DOMAIN rollbacks :
        \E i, j \in ExecutionsOf(id) :
            /\ i < j
            /\ tasks[i].pc = "executeRollback:log"
            /\ tasks[i].threw = None
            /\ tasks[j].threw = "Rollback is not in pending status"

\* the ticks of the monitor that have not ended
TicksInProgress == {i \in TasksOf("tick") : InFlight(i)}

\* C18: while the monitor loop runs, at most one tick is in progress: a
\* firing that comes while the tick before it still awaits the metrics
\* provider or checkAndTriggerRollback starts no tick.
C18_NoOverlap == Cardinality(TicksInProgress) <= 1

\* C19: startMonitoring on an active loop throws and changes nothing, so
\* that at most one interval is ever active; stopMonitoring on an
\* inactive loop throws nothing and changes nothing.
C19_SingleLoop ==
    /\ timers = IF checkInterval = Null THEN 0 ELSE 1
    /\ checkInterval # Null =>
           LET r == startMonitoring(State)
           IN  r.threw = "Monitoring already started" /\ r.st = State
    /\ checkInterval = Null =>
           LET r == stopMonitoring(State)
           IN  r.threw = None /\ r.st = State

C19_Witness ==
    /\ checkInterval # Null
    /\ TicksInProgress # {}
    /\ \E i \in TasksOf("tick") : ~InFlight(i)
    /\ startMonitoring(State).threw # None

\* C20: a tick in which the metrics provider or checkAndTriggerRollback
\* fails ends without an error of its own, and the step that ends it
\* leaves the loop as it was: the interval stays active and goes on firing
\* until stopMonitoring.
C20_FailureIsolated ==
    [][/\ \A i \in TicksInProgress :
             tasks'[i].pc = "settled" =>
                 /\ tasks'[i].threw = None
                 /\ checkInterval' = checkInterval
                 /\ timers' = timers
       /\ now' # now =>
             /\ Len(tasks') = Len(tasks) + 1
             /\ tasks'[Len(tasks')].op = "tick"
             /\ tasks'[Len(tasks')].pc = "tick:getMetrics"]_vars

C20_Witness ==
    /\ checkInterval # Null
    /\ \E i, j \in TasksOf("tick") :
           /\ tasks[i].value = "caught"
           /\ \A t \in tasks[i].settledAt : tasks[j].startedAt > t
           /\ tasks[j].value \in DOMAIN rollbacks

\* the ledger entries of ls about the rollback record id
EntriesFor(ls, id) ==
    Cardinality({k \in 1..Len(ls) :
                    ls[k].targetType = "rollback" /\ ls[k].target = id})

\* C21: every step appends, for each record, one ledger entry with
\* targetType rollback and the record's id as target when it creates the
\* record, one more for each change of the record's status, and no other;
\* so the entries of a record number 1 plus its status changes.
C21_EveryTransitionAudited ==
    [][\A id \in DOMAIN rollbacks' :
          IF id \in DOMAIN rollbacks
          THEN EntriesFor(logs', id) - EntriesFor(logs, id) =
                   IF rollbacks'[id].status # rollbacks[id].status
                   THEN 1 ELSE 0
          ELSE EntriesFor(logs', id) =
                   IF rollbacks'[id].status # "pending" THEN 2 ELSE 1]_vars

\* how many times the hook was called with the record id
NotifiedTimes(id) ==
    Cardinality({k \in 1..Len(notified) : notified[k] = id})

\* the calls that create records, and those that have created a record whose
\* ledger append they still await
Creators == TasksOf("initiateRollback") \cup TasksOf("checkAndTriggerRollback")
AwaitingLog(id) ==
    {i \in Creators : /\ tasks[i].pc = "initiateRollback:log"
                      /\ tasks[i].threw = None
                      /\ tasks[i].value = id}

\* C22: the hook is called once for every record that is created, with that
\* record, before the call that created it returns, and it is called for
\* nothing else: a call that creates no record calls no hook.
C22_HookOncePerRecord ==
    /\ \A k \in 1..Len(notified) : notified[k] \in DOMAIN rollbacks
    /\ \A id \in DOMAIN rollbacks :
           NotifiedTimes(id) = IF AwaitingLog(id) = {} THEN 1 ELSE 0
    /\ \A i \in Creators :
           /\ tasks[i].pc \in {"settled",
                               "checkAndTriggerRollback:initiateRollback"}
           /\ tasks[i].threw = None
           /\ tasks[i].value # None
           => NotifiedTimes(tasks[i].value) = 1

C22_Witness ==
    /\ \E i \in Creators :
           /\ tasks[i].pc = "settled"
           /\ tasks[i].value \in DOMAIN rollbacks
           /\ NotifiedTimes(tasks[i].value) = 1
    /\ \E i \in Creators :
           /\ tasks[i].pc = "settled"
           /\ tasks[i].value = None
    /\ \E id \in DOMAIN rollbacks : AwaitingLog(id) # {}

\* C23: emergencyRollback creates exactly one record, with trigger manual
\* and reason manual_request, and executes it: when it returns, the record
\* it returns is in_progress and the ledger ends with the ROLLBACK_INITIATED
\* entry of the record followed by its ROLLBACK_IN_PROGRESS entry.
C23_EmergencyExecutes ==
    \A initiatedBy \in {"ops", "alice"}, targetVersion \in {"1.0.0", "0.9.0"} :
        \A r \in {emergencyRollback(State, initiatedBy, targetVersion,
                                    now)} :
            /\ r.threw = None
            /\ DOMAIN r.st.rollbacks = DOMAIN rollbacks \cup {r.value}
            /\ r.value \notin DOMAIN rollbacks
            /\ \A id \in DOMAIN rollbacks : r.st.rollbacks[id] = rollbacks[id]
            /\ r.st.rollbacks[r.value].trigger = "manual"
            /\ r.st.rollbacks[r.value].reason = "manual_request"
            /\ r.st.rollbacks[r.value].initiatedBy = initiatedBy
            /\ r.st.rollbacks[r.value].targetVersion = targetVersion
            /\ r.st.rollbacks[r.value].status = "in_progress"
            /\ Len(r.st.logs) = Len(logs) + 2
            /\ SubSeq(r.st.logs, 1, Len(logs)) = logs
            /\ r.st.logs[Len(logs) + 1].action = "ROLLBACK_INITIATED"
            /\ r.st.logs[Len(logs) + 2].action = "ROLLBACK_IN_PROGRESS"
            /\ \A k \in {Len(logs) + 1, Len(logs) + 2} :
                   /\ r.st.logs[k].target = r.value
                   /\ r.st.logs[k].targetType = "rollback"

\* an emergency rollback made by ops after other records were created
C23_Witness ==
    /\ Len(order) >= 2
    /\ Len(logs) >= 3
    /\ LastRecord.initiatedBy = "ops"
    /\ LastRecord.reason = "manual_request"
    /\ LastRecord.status = "in_progress"
    /\ LastLog.action = "ROLLBACK_IN_PROGRESS"
    /\ LastLog.target = LastRecord.id
    /\ logs[Len(logs) - 1].action = "ROLLBACK_INITIATED"
    /\ logs[Len(logs) - 1].target = LastRecord.id

\* the calls of the four operations that take a record id, with an id that
\* no record has
UnknownIdCalls ==
    {executeRollback(State, UnknownId, now)}
    \cup {completeRollback(State, UnknownId, affected, now) :
              affected \in ArtifactLists}
    \cup {failRollback(State, UnknownId, "timeout", now)}
    \cup {cancelRollback(State, UnknownId, cancelledBy, now) :
              cancelledBy \in Cancellers}

\* C24: executeRollback, completeRollback, failRollback and cancelRollback
\* with an id that no record has throw the not-found error and leave the
\* records, lastRollbackTime, the rate counter and the ledger as they were.
C24_UnknownIdRejected ==
    UnknownId \notin DOMAIN rollbacks
    => \A r \in UnknownIdCalls :
           /\ r.threw = "not found"
           /\ r.st = State

C24_Witness ==
    /\ UnknownId \notin DOMAIN rollbacks
    /\ Len(order) >= 2
    /\ Len(logs) >= 2
    /\ rollbackCountLastHour >= 1
    /\ \A r \in UnknownIdCalls : r.threw = "not found"

\* the ledger as the read operations can change it
LedgerState(st) == [logs |-> st.logs, lastHash |-> st.lastHash]

\* C25: getLogs with any options and exportForCompliance in either format
\* leave the entries, their order and the cached tail hash as they were;
\* verifyIntegrity computes its result from the entries and assigns nothing.
C25_ReadsArePure ==
    /\ \A options \in QueryOptions :
           getLogs(State, options).st = State
    /\ \A format \in ExportFormats :
           exportForCompliance(State, format).st = State
    /\ verifyIntegrity(logs) \in
           [valid : BOOLEAN, brokenAt : -1..(Len(logs) - 1)]

\* a full ledger that a query returns in another order than it is stored
C25_Witness ==
    /\ Len(logs) = MaxLogs
    /\ logs[1].timestamp < logs[Len(logs)].timestamp
    /\ getLogs(State, NoOptions).value[1] = Len(logs)
    /\ LedgerState(getLogs(State, NoOptions).st) = LedgerState(State)

\* C26: the ledger is append-only: a step that is not a pruning leaves the
\* entries it found as they were and where they were, and adds at most one
\* entry, at the tail; this holds for the steps of callers too, which can
\* reach a stored entry only through what log and getLogs return.
C26_AppendOnly ==
    [][/\ Len(logs') \in {Len(logs), Len(logs) + 1}
       /\ SubSeq(logs', 1, Len(logs)) = logs]_vars

\* the entries (1-based) that are broken: linked to something else than the
\* hash of the entry before, or the genesis value for the first, or with a
\* hash that is not the hash of their content
BrokenEntries ==
    {i \in 1..Len(logs) :
        \/ logs[i].previousHash #
               (IF i > 1 THEN logs[i - 1].hash ELSE Genesis)
        \/ logs[i].hash # ComputedHash(logs[i])}

\* C27: when several entries are broken, verifyIntegrity() reports the
\* ledger invalid at the smallest broken index; every entry before that
\* index passes both checks.
C27_FirstBroken ==
    Cardinality(BrokenEntries) >= 2 =>
        \E i \in BrokenEntries :
            /\ \A j \in BrokenEntries : i <= j
            /\ verifyIntegrity(logs) = [valid |-> FALSE, brokenAt |-> i - 1]

\* C28: what getLogs returns is ordered by timestamp, newest first, and
\* entries of one timestamp come in the order in which they were appended.
C28_NewestFirstStable ==
    \A options \in QueryOptions :
        \A items \in {getLogs(State, options).value} :
            \A i, j \in 1..Len(items) :
                i < j =>
                    \/ logs[items[i]].timestamp > logs[items[j]].timestamp
                    \/ /\ logs[items[i]].timestamp = logs[items[j]].timestamp
                       /\ items[i] < items[j]

\* two entries of one time and a later one: the later one comes first, the
\* two keep their order
C28_Witness ==
    /\ Len(logs) = 3
    /\ logs[1].timestamp = logs[2].timestamp
    /\ logs[2].timestamp < logs[3].timestamp
    /\ getLogs(State, NoOptions).value = <<3, 1, 2>>

\* entry l satisfies every filter that options supplies
Satisfies(l, options) ==
    /\ options.actor # Undefined => l.actor = options.actor
    /\ options.action # Undefined => l.action = options.action
    /\ options.target # Undefined => l.target = options.target
    /\ options.targetType # Undefined => l.targetType = options.targetType
    /\ \A startDate \in options.startDate : startDate <= l.timestamp
    /\ \A endDate \in options.endDate : l.timestamp <= endDate

\* C29: without limit and offset, getLogs returns the entries of the ledger
\* that satisfy every supplied filter, each once, and no other entry.
C29_Conjunctive ==
    \A options \in FilterOptions :
        \A items \in {getLogs(State, options).value} :
            /\ {items[i] : i \in 1..Len(items)} =
                   {k \in 1..Len(logs) : Satisfies(logs[k], options)}
            /\ Len(items) = Cardinality({items[i] : i \in 1..Len(items)})

\* the same for the filters that are not the empty string
C29_ConjunctiveNonEmpty ==
    \A options \in {o \in FilterOptions : o.actor # ""} :
        \A items \in {getLogs(State, options).value} :
            {items[i] : i \in 1..Len(items)} =
                {k \in 1..Len(logs) : Satisfies(logs[k], options)}

\* C30: limit and offset apply to the filtered and sorted result: getLogs
\* with offset o and limit l returns the elements at positions o .. o+l-1
\* of what it returns without them, fewer if the result is shorter, for
\* every o >= 0 and l >= 0.
C30_PageOfSorted ==
    \A options \in QueryOptions :
        \A o \in options.offset, l \in options.limit :
            \A all \in {getLogs(State, [options EXCEPT !.limit = {},
                                                         !.offset = {}]).value},
               items \in {getLogs(State, options).value} :
                /\ Len(items) =
                       IF Len(all) - o < 0 THEN 0
                       ELSE IF Len(all) - o < l THEN Len(all) - o ELSE l
                /\ \A i \in 1..Len(items) : items[i] = all[o + i]

\* the same for every limit but 0
C30_PageOfSortedPositive ==
    \A options \in {q \in QueryOptions : q.limit # {0}} :
        \A o \in options.offset, l \in options.limit :
            \A all \in {getLogs(State, [options EXCEPT !.limit = {},
                                                         !.offset = {}]).value},
               items \in {getLogs(State, options).value} :
                items = SubSeq(all, o + 1,
                               IF o + l < Len(all) THEN o + l ELSE Len(all))

\* C31: the autoRollbackConfig of a record holds the thresholds config had
\* when the record was created, and no step, a write to config included,
\* changes the autoRollbackConfig of a record that exists.
C31_ConfigSnapshot ==
    [][\A id \in DOMAIN rollbacks' :
          rollbacks'[id].autoRollbackConfig =
              IF id \in DOMAIN rollbacks
              THEN rollbacks[id].autoRollbackConfig
              ELSE [k \in DOMAIN rollbacks'[id].autoRollbackConfig |->
                       thisConfig[k]]]_vars

\* records created under two configs, each with the thresholds of its time
C31_Witness ==
    \E i, j \in DOMAIN rollbacks :
        /\ rollbacks[i].autoRollbackConfig # rollbacks[j].autoRollbackConfig
        /\ \E k \in DOMAIN rollbacks[i].autoRollbackConfig :
               rollbacks[i].autoRollbackConfig[k] # thisConfig[k]

\* A reader of CSV text (RFC 4180): the records of the text, each the
\* sequence of its fields.  A delimiter or a line break between an odd
\* number of quotes is inside a quoted field; a field in quotes stands for
\* the text between them, with every doubled quote read as one.
CharAt(text, i) == SubSeq(text, i, i)

QuotePositions(text) == {i \in 1..Len(text) : CharAt(text, i) = "\""}

\* the positions from..to of text that hold c outside quotes
Separators(text, quotes, c, from, to) ==
    {i \in from..to :
        /\ CharAt(text, i) = c
        /\ Cardinality({q \in quotes : q < i}) % 2 = 0}

\* the k-th smallest position of a set
Nth(positions, k) ==
    CHOOSE p \in positions : Cardinality({q \in positions : q < p}) = k - 1

\* the stretches of from..to between the separators
Stretches(from, to, separators) ==
    [k \in 1..(Cardinality(separators) + 1) |->
        [from |-> IF k = 1 THEN from ELSE Nth(separators, k - 1) + 1,
         to |-> IF k = Cardinality(separators) + 1 THEN to
                ELSE Nth(separators, k) - 1]]

RECURSIVE Undoubled(_)
Undoubled(field) ==
    IF Len(field) < 2 THEN field
    ELSE IF SubSeq(field, 1, 2) = "\"\""
    THEN "\"" \o Undoubled(SubSeq(field, 3, Len(field)))
    ELSE CharAt(field, 1) \o Undoubled(SubSeq(field, 2, Len(field)))

Unquoted(field) ==
    IF Len(field) >= 2 /\ CharAt(field, 1) = "\""
                      /\ CharAt(field, Len(field)) = "\""
    THEN Undoubled(SubSeq(field, 2, Len(field) - 1))
    ELSE field

CsvFields(text, quotes, record) ==
    LET fields == Stretches(record.from, record.to,
                            Separators(text, quotes, ",", record.from,
                                       record.to))
    IN  [k \in 1..Len(fields) |->
            Unquoted(SubSeq(text, fields[k].from, fields[k].to))]

CsvRecords(text) ==
    CHOOSE records \in
        {[k \in 1..Len(lines) |-> CsvFields(text, quotes, lines[k])] :
            quotes \in {QuotePositions(text)},
            lines \in {Stretches(1, Len(text),
                                 Separators(text, QuotePositions(text), "\n",
                                            1, Len(text)))}} : TRUE

\* C32: the CSV export of a ledger of N entries reads as N+1 records, the
\* header and one row per entry in ledger order, and each row reads as the
\* eight columns of its entry, whatever text action, actor and target hold.
C32_CsvShape ==
    \A records \in {CsvRecords(exportForCompliance(State, "csv").value)} :
        /\ Len(records) = Len(logs) + 1
        /\ records[1] = CsvHeaders
        /\ \A k \in 1..Len(logs) :
               /\ Len(records[k + 1]) = 8
               /\ records[k + 1][1] = logs[k].id
               /\ records[k + 1][2] = logs[k].action
               /\ records[k + 1][3] = logs[k].actor
               /\ records[k + 1][4] = logs[k].target

\* the details objects with the properties of details, inserted in any
\* order
Reorderings(details) ==
    {[k \in 1..Len(details) |-> details[sigma[k]]] :
        sigma \in {f \in [1..Len(details) -> 1..Len(details)] :
                       \A i, j \in 1..Len(details) : f[i] = f[j] => i = j}}

\* C33: the hash of an entry depends on its content only: createAuditHash
\* gives the hash of a stored entry for the same id, action, actor, target,
\* timestamp and previousHash and a details object that holds the same
\* properties, inserted in whatever order.
C33_HashOfContent ==
    \A k \in 1..Len(logs) :
        \A details \in Reorderings(logs[k].details) :
            createAuditHash(
                LogData(logs[k].id, logs[k].action, logs[k].actor,
                        logs[k].target, logs[k].timestamp, details),
                logs[k].previousHash) = logs[k].hash

\* C34: a checkAndTriggerRollback call whose metrics exceed no threshold
\* (a value on its threshold does not exceed it), or which finds the
\* cooldown active or the hourly cap reached, returns null and leaves the
\* records, lastRollbackTime, the rate counter, the ledger and the calls of
\* the hook as they were.
C34_SuppressedIsNoOp ==
    \A m \in MetricsSamples :
        \A r \in {checkAndTriggerRollback(State, m, now)} :
            (~Qualifying(m) \/ CooldownActive(State, now) \/ RateLimited(State))
            => /\ r.threw = None
               /\ r.value = None
               /\ r.st = State

\* records exist and both gates are open: only the metrics decide
C34_Witness ==
    /\ DOMAIN rollbacks # {}
    /\ ~CooldownActive(State, now)
    /\ ~RateLimited(State)
    /\ \E m \in MetricsSamples :
           /\ m.errorRate = config.errorRateThreshold
           /\ m.averageResponseTimeMs = config.performanceThresholdMs
           /\ checkAndTriggerRollback(State, m, now).value = None
    /\ \E m \in MetricsSamples :
           checkAndTriggerRollback(State, m, now).value # None

\* C35: whenever the ledger holds entries, after appends and prunes in any
\* order, getLastHash() is the hash of the last entry, and an append made
\* now links its entry to that hash.
C35_TailIsLastHash ==
    Len(logs) > 0 =>
        /\ getLastHash(State) = LastLog.hash
        /\ \A entry \in LogEntries :
               \A r \in {log(State, entry, now)} :
                   r.threw = None =>
                       r.st.logs[Len(logs) + 1].previousHash = LastLog.hash

\* a ledger whose oldest entries were pruned: the first entry left links to
\* an entry that is gone
C35_Witness ==
    /\ Len(logs) >= 2
    /\ logs[1].previousHash # Genesis
    /\ logs[1].timestamp < LastLog.timestamp
    /\ lastHash = LastLog.hash

\* C36: every step that creates a record, by checkAndTriggerRollback,
\* initiateRollback or emergencyRollback, sets lastRollbackTime to the time
\* of the creation and adds one to the rate counter; and within
\* cooldownSeconds of the creation of a manual record a
\* checkAndTriggerRollback call with qualifying metrics returns null.
C36_ManualFeedsGate ==
    [][/\ \A id \in DOMAIN rollbacks' \ DOMAIN rollbacks :
              /\ lastRollbackTime' = rollbacks'[id].timestamp
              /\ rollbackCountLastHour' = rollbackCountLastHour + 1
       /\ \A id \in DOMAIN rollbacks' :
              (/\ rollbacks'[id].trigger = "manual"
               /\ now' - rollbacks'[id].timestamp < CooldownMs)
              => \A m \in MetricsSamples :
                     checkAndTriggerRollback(State, m, now)'.value = None]_vars

\* a manual record younger than the cooldown, qualifying metrics, no new
\* record
C36_Witness ==
    /\ order # <<>>
    /\ LastRecord.trigger = "manual"
    /\ now > LastRecord.timestamp
    /\ now - LastRecord.timestamp < CooldownMs
    /\ lastRollbackTime = LastRecord.timestamp
    /\ rollbackCountLastHour < config.maxRollbacksPerHour
    /\ \E m \in MetricsSamples :
           Qualifying(m) /\ checkAndTriggerRollback(State, m, now).value = None

\* C37: in every record, completedAt is set exactly when the status is
\* completed or failed, error is set only when the status is failed, and
\* affectedArtifacts holds artifacts only when the status is completed.
C37_FieldsFollowStatus ==
    \A id \in DOMAIN rollbacks :
        /\ rollbacks[id].completedAt # {}
               <=> Statuses(id) \in {"completed", "failed"}
        /\ rollbacks[id].error # Undefined => Statuses(id) = "failed"
        /\ rollbacks[id].affectedArtifacts # <<>> => Statuses(id) = "completed"

\* the actions of the ledger entries about record id, in ledger order
ActionsFor(id) ==
    LET entries == SelectSeq(logs, LAMBDA l : l.targetType = "rollback"
                                              /\ l.target = id)
    IN  [k \in 1..Len(entries) |-> entries[k].action]

TerminalActions ==
    {"ROLLBACK_COMPLETED", "ROLLBACK_FAILED", "ROLLBACK_CANCELLED"}

\* C38: the ledger entries of a record come as ROLLBACK_INITIATED first,
\* then ROLLBACK_IN_PROGRESS if the record was executed, then at most one
\* of ROLLBACK_COMPLETED, ROLLBACK_FAILED and ROLLBACK_CANCELLED, which is
\* the last, whatever operations on this and other records come between.
C38_AuditOrder ==
    \A id \in DOMAIN rollbacks :
        \A actions \in {ActionsFor(id)} :
            \A k \in 1..Len(actions) :
                /\ actions[k] = "ROLLBACK_INITIATED" <=> k = 1
                /\ actions[k] = "ROLLBACK_IN_PROGRESS" => k = 2
                /\ actions[k] \in TerminalActions => k = Len(actions)
\* C39: persistence round trip.  In every reachable state, the ledger that
\* deserialize(serialize()) gives has the same entries in the same order and
\* the same cached tail hash as the original, verifyIntegrity gives the
\* same result on both, and an append to the restored ledger is linked to
\* the same previousHash as the same append to the original.
RestoredState(restored) ==
    [State EXCEPT !.logs = restored.logs, !.lastHash = restored.lastHash]

C39_RoundTrip ==
    \A restored \in {deserialize(serialize(State), now)} :
        /\ restored.logs = logs
        /\ restored.lastHash = lastHash
        /\ getLastHash(RestoredState(restored)) = getLastHash(State)
        /\ verifyIntegrity(restored.logs) = verifyIntegrity(logs)
        /\ \A entry \in LogEntries :
               AuditLogOf(RestoredState(restored), entry, now).previousHash
                   = AuditLogOf(State, entry, now).previousHash

\* a pruned ledger with entries, restored after the clock has moved on: the
\* cached tail is not the hash a new service starts with, and the first
\* restored entry links to an entry that is not in the data
C39_Witness ==
    /\ Len(logs) >= 2
    /\ now > StartTime
    /\ logs[1].previousHash # Genesis
    /\ logs[1].ipAddress = Undefined
    /\ \E k \in 1..Len(logs) : Len(logs[k].details) > 0
    /\ deserialize(serialize(State), now).lastHash = logs[Len(logs)].hash

\* C40: current branch validity.  After any sequence of createBranch,
\* deleteBranch, setCurrentBranch and updateHeadCommit calls,
\* getCurrentBranch() names a branch of the branch map; and setCurrentBranch
\* with a name the map does not have throws and leaves the current branch
\* as it was.
MissingBranchRejected ==
    \A name \in BranchNames \ DOMAIN branches :
        \A r \in {setCurrentBranch(BranchManagerState, State, name)} :
            /\ r.threw # None
            /\ getCurrentBranch(r.bm) = currentBranch

C40_CurrentBranchValid ==
    /\ getCurrentBranch(BranchManagerState) \in DOMAIN branches
    /\ MissingBranchRejected

\* the second half of C40 alone, and what the first half comes to in the
\* code: the current branch is a branch of the map or one that was deleted
\* while it was current
C40_MissingBranchRejected ==
    /\ MissingBranchRejected
    /\ currentBranch \in BranchNames

====
